---- MODULE Spec2Model ----
(***************************************************************************)
(* Verification model of the telemetry core of toyota-race-suite:          *)
(*   - processing/interpolate_trajectories.py  (lapdist repair)            *)
(*   - processing/time_alignment.py            (race start detection)      *)
(*   - app/world_model.py                      (runtime query layer)       *)
(*                                                                         *)
(* Distances are fixed-point integers in tenths of a distance unit, so     *)
(* that max_slope * dt_s = 120.0 * 0.01 = 1.2 is the integer 12.  Times of *)
(* the interpolator are integers in grid steps (one step = dt_ms).         *)
(* Python indices are kept 0-based; At(s, i) reads s[i].                   *)
(***************************************************************************)
EXTENDS Integers, Sequences, FiniteSets, TLC

VARIABLES
    \* interpolate_trajectory
    samples,            \* df after drop_duplicates/sort_values: rows (rel_time, lapdist)
    lapdist_interp,     \* the array lapdist_interp, repaired in place
    reset_indices,      \* the list reset_indices
    ipc,                \* position inside interpolate_trajectory
    \* detect_race_start
    df,                 \* signals_df: rows (timestamp, lapdist, speed)
    race_start,         \* what detect_race_start returned, and by which rule
    aligned,            \* the table returned by align_time
    \* WorldModel
    car_ids,            \* self.car_ids
    trajectories,       \* self.trajectories: car_id -> rows
    racing_line,        \* self.racing_line (global), with its KD-tree
    per_car_racing_lines, \* self.per_car_racing_lines (and racing_line_trees)
    lateral_diff_reference, \* self.lateral_diff_reference
    ret,                \* the value returned by the last query
    \* generate_all_trajectories run by PreprocessingRunner
    telemetry,          \* the vehicles of the raw CSV, in get_vehicle_ids order
    ppc,                \* position of the background thread
    loop_index,         \* i of the vehicle loop, then j of the per-car line loop
    pipe_trajectories,  \* keys of the dict trajectories, in insertion order
    racing_line_metadata, \* keys of the dict racing_line_metadata
    current_job,        \* current_job
    total_jobs,         \* total_jobs
    calls,              \* callbacks invoked so far, in order
    cancelled,          \* PreprocessingRunner._cancelled
    \* StateManager, LoadingScreen and the application's state-change handler
    app_state,          \* StateManager.state
    input_file_path,    \* StateManager.input_file_path
    output_dir,         \* StateManager.output_dir
    error_message,      \* StateManager.error_message
    progress_percent,   \* StateManager.progress_percent
    runner_jobs,        \* input files PreprocessingRunner.start was called with
    \* WorldModel: lap and sector timing
    lap_data,           \* self.lap_data: car_id -> lap start indices
    sector_boundaries,  \* self.sector_boundaries: (start_dist_m, end_dist_m) per sector
    car_sector_times,   \* self.car_sector_times: car_id -> lap_num -> sector times (ms)
    car_lap_times,      \* self.car_lap_times: car_id -> lap times (ms)
    car_best_sectors,   \* self.car_best_sectors: car_id -> best time per sector
    overall_best_sectors, \* self.overall_best_sectors
    spc,                \* position inside load_trajectories
    \* section_compare_processing: canonical line, ideal lap and sectors
    car_median_line_filtered, \* car -> median line, after the outlier filter
    canonical_line,     \* the DataFrame canonical_line
    sector_info,        \* the list sector_info
    sector_payload,     \* what sector_map.json holds
    cpc,                \* position inside run_section_compare_processing
    \* compute_racing_line
    all_trajectories,   \* all_trajectories: car -> rows [x, y, speed, lapdist]
    rl_result,          \* what compute_racing_line returned or raised
    \* interpolate_trajectory: the lap channel
    lap_df,             \* df: rows (rel_time, lap)
    lap_present,        \* 'lap' in df.columns
    lap_interp,         \* the lap column of the returned trajectory
    lpc,                \* position inside interpolate_trajectory
    \* build_trail_for_car
    trail_lap,          \* lap_df: timestamp_dt of the fastest lap, sorted
    trail_seconds,      \* trail_seconds
    trail_df,           \* t_rel_s of the rows of the returned trail_df
    tpc,                \* position inside build_trail_for_car
    \* DatasetManager
    datasets,           \* keys of self.datasets, in insertion order
    active_dataset_id,  \* self.active_dataset_id
    next_dataset_id,    \* self.next_dataset_id
    dm_returns,         \* what the calls made so far returned or raised
    \* message_overlay
    message_queue,      \* message_queue
    active_message,     \* active_message
    time_remaining,     \* active_until - time.time()
    canvas_tag,         \* canvas_tag
    overlay_events,     \* activations and clears so far, in order
    messages_shown      \* number of show_message calls so far

interpVars == <<samples, lapdist_interp, reset_indices, ipc>>
startVars == <<df, race_start, aligned>>
worldVars == <<car_ids, trajectories, racing_line, per_car_racing_lines,
               lateral_diff_reference, ret>>
pipeVars == <<telemetry, ppc, loop_index, pipe_trajectories, racing_line_metadata,
              current_job, total_jobs, calls, cancelled>>
appVars == <<app_state, input_file_path, output_dir, error_message,
             progress_percent, runner_jobs>>
sectorVars == <<lap_data, sector_boundaries, car_sector_times, car_lap_times,
                car_best_sectors, overall_best_sectors, spc>>
canonVars == <<car_median_line_filtered, canonical_line, sector_info,
               sector_payload, cpc>>
lineVars == <<all_trajectories, rl_result>>
lapVars == <<lap_df, lap_present, lap_interp, lpc>>
trailVars == <<trail_lap, trail_seconds, trail_df, tpc>>
datasetVars == <<datasets, active_dataset_id, next_dataset_id, dm_returns>>
overlayVars == <<message_queue, active_message, time_remaining, canvas_tag,
                 overlay_events, messages_shown>>
uiVars == <<datasetVars, overlayVars>>
moreVars == <<sectorVars, canonVars, lineVars, lapVars, trailVars, uiVars>>
extVars == <<pipeVars, appVars, moreVars>>
\* everything but one group: what the actions of that group leave alone
notPipeVars == <<interpVars, startVars, worldVars, appVars, moreVars>>
notAppVars == <<interpVars, startVars, worldVars, pipeVars, moreVars>>
notSectorVars == <<interpVars, startVars, worldVars, pipeVars, appVars, canonVars,
                   lineVars, lapVars, trailVars, uiVars>>
notCanonVars == <<interpVars, startVars, worldVars, pipeVars, appVars, sectorVars,
                  lineVars, lapVars, trailVars, uiVars>>
notLineVars == <<interpVars, startVars, worldVars, pipeVars, appVars, sectorVars,
                 canonVars, lapVars, trailVars, uiVars>>
notLapVars == <<interpVars, startVars, worldVars, pipeVars, appVars, sectorVars,
                canonVars, lineVars, trailVars, uiVars>>
notTrailVars == <<interpVars, startVars, worldVars, pipeVars, appVars, sectorVars,
                  canonVars, lineVars, lapVars, uiVars>>
notDatasetVars == <<interpVars, startVars, worldVars, pipeVars, appVars, sectorVars,
                    canonVars, lineVars, lapVars, trailVars, overlayVars>>
notOverlayVars == <<interpVars, startVars, worldVars, pipeVars, appVars, sectorVars,
                    canonVars, lineVars, lapVars, trailVars, datasetVars>>
vars == <<interpVars, startVars, worldVars, extVars>>

\* ------------------------------------------------------------------
\* Generic helpers
\* ------------------------------------------------------------------
At(s, i) == s[i + 1]

Max2(a, b) == IF a >= b THEN a ELSE b

None == "None"

\* detect_race_start has not returned yet
NotDetected == [ts |-> 0, rule |-> "pending"]

\* no query has returned yet
NoReturn == [op |-> "none"]

\* All sequences over S with length in lo..hi.
SeqsOf(S, lo, hi) == UNION {[1..n -> S] : n \in lo..hi}

\* ------------------------------------------------------------------
\* Bounds of the model
\* ------------------------------------------------------------------
MaxSamples == 4

\* Fixed point: tenths of a distance unit.
Tenths(m) == 10 * m

\* Raw lapdist readings (tenths; all even so that a midpoint is exact).
LapVals == {0, 10, Tenths(400), Tenths(500), Tenths(600), Tenths(2000)}

\* Gap between two consecutive raw timestamps, in grid steps.
Gaps == {1, 2}

\* ------------------------------------------------------------------
\* interpolate_trajectory  (processing/interpolate_trajectories.py)
\* ------------------------------------------------------------------
dt_ms == 10
max_slope == 120
\* max_diff = max_slope * dt_s, in tenths
max_diff == (Tenths(max_slope) * dt_ms) \div 1000

\* Inputs: rel_time strictly increasing from 0 (align_time keeps rel_time >= 0
\* and race_start is one of the timestamps of the table).
RECURSIVE TimesFrom(_, _)
TimesFrom(gaps, t0) ==
    IF gaps = <<>> THEN <<t0>>
    ELSE <<t0>> \o TimesFrom(Tail(gaps), t0 + Head(gaps))

SampleTable(g, v) ==
    [k \in 1..Len(v) |-> [rel_time |-> TimesFrom(g, 0)[k], lapdist |-> v[k]]]

\* global_t = np.arange(0, t_original[-1], dt_s): grid steps 0 .. t_last - 1
GridLen(tbl) == tbl[Len(tbl)].rel_time

\* interp1d(kind='linear') at grid step g (0 <= g < t_last): the bracketing
\* raw rows k, k+1 with t_k <= g < t_{k+1}.
Bracket(tbl, g) ==
    CHOOSE k \in 1..(Len(tbl) - 1) : tbl[k].rel_time <= g /\ g < tbl[k + 1].rel_time

LinInterp(tbl, g) ==
    LET k == Bracket(tbl, g)
        t0 == tbl[k].rel_time
        t1 == tbl[k + 1].rel_time
        v0 == tbl[k].lapdist
        v1 == tbl[k + 1].lapdist
    IN  v0 + ((v1 - v0) * (g - t0)) \div (t1 - t0)

InterpolatedLapdist(tbl) == [j \in 1..GridLen(tbl) |-> LinInterp(tbl, j - 1)]

\* Step 1: a lap reset drops by > 100 and lands below 500.
IsResetNoLanding(l, i) == At(l, i) < At(l, i - 1) - Tenths(100)

IsReset(l, i) ==
    At(l, i) < At(l, i - 1) - Tenths(100) /\ At(l, i) < Tenths(500)

RECURSIVE DetectFrom(_, _)
DetectFrom(l, i) ==
    IF i >= Len(l) THEN <<>>
    ELSE (IF IsReset(l, i) THEN <<i>> ELSE <<>>) \o DetectFrom(l, i + 1)

\* lap_boundaries = [0] + reset_indices + [len(lapdist_interp)]
LapBoundaries(l, resets) == <<0>> \o resets \o <<Len(l)>>

\* Step 2, body of the inner loop for sample i: the repaired value of l[i].
MonotonicClampNone(prev, cur) == cur

MonotonicClamp(prev, cur) == IF cur < prev THEN prev ELSE cur

SlopeClampNone(prev, cur) == cur

SlopeClamp(prev, cur) == IF cur - prev > max_diff THEN prev + max_diff ELSE cur

RepairSample(l, i) ==
    SlopeClamp(At(l, i - 1), MonotonicClamp(At(l, i - 1), At(l, i)))

RECURSIVE RepairRange(_, _, _)
RepairRange(l, i, end) ==
    IF i >= end THEN l
    ELSE RepairRange([l EXCEPT ![i + 1] = RepairSample(l, i)], i + 1, end)

RECURSIVE RepairSegments(_, _, _)
RepairSegments(l, bnds, lap_idx) ==
    IF lap_idx >= Len(bnds) - 1 THEN l
    ELSE RepairSegments(
            RepairRange(l, At(bnds, lap_idx) + 1, At(bnds, lap_idx + 1)),
            bnds, lap_idx + 1)

\* lines 16-38: dedup/sort, early returns, uniform grid, linear interpolation
Interpolate ==
    /\ ipc = "start"
    /\ IF Len(samples) < 2 \/ GridLen(samples) < 2
       THEN /\ ipc' = "returned_none"
            /\ lapdist_interp' = <<>>
       ELSE /\ ipc' = "interpolated"
            /\ lapdist_interp' = InterpolatedLapdist(samples)
    /\ UNCHANGED <<samples, reset_indices, startVars, worldVars, extVars>>

\* lines 44-49
DetectResets ==
    /\ ipc = "interpolated"
    /\ reset_indices' = DetectFrom(lapdist_interp, 1)
    /\ ipc' = "resets_detected"
    /\ UNCHANGED <<samples, lapdist_interp, startVars, worldVars, extVars>>

\* lines 52-71; the trajectory is then stacked and returned
RepairLapdist ==
    /\ ipc = "resets_detected"
    /\ lapdist_interp' =
          RepairSegments(lapdist_interp, LapBoundaries(lapdist_interp, reset_indices), 0)
    /\ ipc' = "returned"
    /\ UNCHANGED <<samples, reset_indices, startVars, worldVars, extVars>>

InterpIdle ==
    /\ samples = <<>>
    /\ lapdist_interp = <<>>
    /\ reset_indices = <<>>
    /\ ipc = "idle"

StartIdle ==
    /\ df = <<>>
    /\ race_start = NotDetected
    /\ aligned = <<>>

WorldIdle ==
    /\ car_ids = {}
    /\ trajectories = <<>>
    /\ racing_line = <<>>
    /\ per_car_racing_lines = <<>>
    /\ lateral_diff_reference = "racing_line"
    /\ ret = NoReturn

PipeIdle ==
    /\ telemetry = <<>>
    /\ ppc = "idle"
    /\ loop_index = 0
    /\ pipe_trajectories = <<>>
    /\ racing_line_metadata = {}
    /\ current_job = 0
    /\ total_jobs = 0
    /\ calls = <<>>
    /\ cancelled = FALSE

\* StateManager.__init__; no runner has been started
AppIdle ==
    /\ app_state = "waiting_for_file"
    /\ input_file_path = None
    /\ output_dir = None
    /\ error_message = None
    /\ progress_percent = 0
    /\ runner_jobs = {}

\* float('inf'): above every time of the model
inf == 1000000

\* WorldModel.__init__, lines 114-124
SectorIdle ==
    /\ lap_data = <<>>
    /\ sector_boundaries = <<>>
    /\ car_sector_times = <<>>
    /\ car_lap_times = <<>>
    /\ car_best_sectors = <<>>
    /\ overall_best_sectors = <<inf, inf, inf>>
    /\ spc = "idle"

NoPayload == [track_length_m |-> 0 - 1, ideal_lap_time_s |-> 0 - 1, sectors |-> <<>>]

CanonIdle ==
    /\ car_median_line_filtered = <<>>
    /\ canonical_line = <<>>
    /\ sector_info = <<>>
    /\ sector_payload = NoPayload
    /\ cpc = "idle"

\* compute_racing_line has not been called
NoLine == [kind |-> "pending", n_points |-> 0, valid |-> {}]

LineIdle ==
    /\ all_trajectories = <<>>
    /\ rl_result = NoLine

LapIdle ==
    /\ lap_df = <<>>
    /\ lap_present = FALSE
    /\ lap_interp = <<>>
    /\ lpc = "idle"

TrailIdle ==
    /\ trail_lap = <<>>
    /\ trail_seconds = 0
    /\ trail_df = <<>>
    /\ tpc = "idle"

\* DatasetManager.__init__
DatasetIdle ==
    /\ datasets = <<>>
    /\ active_dataset_id = None
    /\ next_dataset_id = 1
    /\ dm_returns = <<>>

\* active_message = None
NoMessage == [text |-> 0, duration |-> 0]

\* message_overlay at import, lines 8-11
OverlayIdle ==
    /\ message_queue = <<>>
    /\ active_message = NoMessage
    /\ time_remaining = 0
    /\ canvas_tag = None
    /\ overlay_events = <<>>
    /\ messages_shown = 0

UiIdle == DatasetIdle /\ OverlayIdle

MoreIdle == SectorIdle /\ CanonIdle /\ LineIdle /\ LapIdle /\ TrailIdle /\ UiIdle

ExtIdle ==
    /\ PipeIdle
    /\ AppIdle
    /\ MoreIdle

NotPipeIdle == InterpIdle /\ StartIdle /\ WorldIdle /\ AppIdle /\ MoreIdle

NotAppIdle == InterpIdle /\ StartIdle /\ WorldIdle /\ PipeIdle /\ MoreIdle

BaseIdle == InterpIdle /\ StartIdle /\ PipeIdle /\ AppIdle /\ UiIdle

NotSectorIdle == BaseIdle /\ CanonIdle /\ LineIdle /\ LapIdle /\ TrailIdle

NotCanonIdle == BaseIdle /\ WorldIdle /\ SectorIdle /\ LineIdle /\ LapIdle /\ TrailIdle

NotLineIdle == BaseIdle /\ WorldIdle /\ SectorIdle /\ CanonIdle /\ LapIdle /\ TrailIdle

NotLapIdle == BaseIdle /\ WorldIdle /\ SectorIdle /\ CanonIdle /\ LineIdle /\ TrailIdle

NotTrailIdle == BaseIdle /\ WorldIdle /\ SectorIdle /\ CanonIdle /\ LineIdle /\ LapIdle

AllButUiIdle ==
    /\ InterpIdle /\ StartIdle /\ WorldIdle /\ PipeIdle /\ AppIdle
    /\ SectorIdle /\ CanonIdle /\ LineIdle /\ LapIdle /\ TrailIdle

NotDatasetIdle == AllButUiIdle /\ OverlayIdle

NotOverlayIdle == AllButUiIdle /\ DatasetIdle

InitInterp ==
    /\ \E n \in 1..MaxSamples :
          \E g \in [1..(n - 1) -> Gaps], v \in [1..n -> LapVals] :
              samples = SampleTable(g, v)
    /\ lapdist_interp = <<>>
    /\ reset_indices = <<>>
    /\ ipc = "start"
    /\ StartIdle
    /\ WorldIdle
    /\ ExtIdle

NextInterp == Interpolate \/ DetectResets \/ RepairLapdist

SpecInterp == InitInterp /\ [][NextInterp]_vars

\* ------------------------------------------------------------------
\* Properties of interpolate_trajectory
\* ------------------------------------------------------------------
Returned == ipc = "returned"

\* The interpolated lapdist before the repair touched it.
RawLapdist == InterpolatedLapdist(samples)

ResetSet == {reset_indices[k] : k \in 1..Len(reset_indices)}

\* Samples i-1 and i lie in the same segment of lap_boundaries.
SameSegment(i) ==
    LET bnds == LapBoundaries(lapdist_interp, reset_indices)
    IN  \E k \in 1..(Len(bnds) - 1) : bnds[k] <= i - 1 /\ i < bnds[k + 1]

InnerIdx == 1..(Len(lapdist_interp) - 1)

\* C1: in a returned trajectory, lapdist is non-decreasing within each
\* segment delimited by the detected resets (boundaries 0, resets, N).
C1_NonDecreasingInSegment ==
    Returned =>
        \A i \in InnerIdx :
            SameSegment(i) => At(lapdist_interp, i) >= At(lapdist_interp, i - 1)

\* C1 witness: a returned trajectory with a detected reset in which the raw
\* lapdist decreased inside a segment, so the monotonic clamp had to act.
C1_Witness ==
    /\ Returned
    /\ reset_indices # <<>>
    /\ \E i \in InnerIdx : SameSegment(i) /\ At(RawLapdist, i) < At(RawLapdist, i - 1)

RawDrop(i) == At(RawLapdist, i) < At(RawLapdist, i - 1) - Tenths(100)

\* C10, first half: sample i starts a new segment iff the interpolated
\* lapdist drops by more than 100 and lands below 500.
ResetIffDropAndLanding ==
    \A i \in InnerIdx :
        (i \in ResetSet) <=> (RawDrop(i) /\ At(RawLapdist, i) < Tenths(500))

\* C10 (as claimed): ... and a drop landing at or above 500 starts no segment
\* and the sample is clamped to the previous value.
C10_DropAboveLandingClampedToPrevious ==
    Returned =>
        /\ ResetIffDropAndLanding
        /\ \A i \in InnerIdx :
              (RawDrop(i) /\ At(RawLapdist, i) >= Tenths(500)) =>
                  /\ i \notin ResetSet
                  /\ At(lapdist_interp, i) = At(lapdist_interp, i - 1)

\* C10 (amended): ... a drop landing at or above 500 starts no segment, and
\* the sample is clamped to the repaired previous value whenever it lies below
\* that repaired value; it is never left below it.
C10_DropAboveLandingNoSegment ==
    Returned =>
        /\ ResetIffDropAndLanding
        /\ \A i \in InnerIdx :
              (RawDrop(i) /\ At(RawLapdist, i) >= Tenths(500)) =>
                  /\ i \notin ResetSet
                  /\ At(lapdist_interp, i) >= At(lapdist_interp, i - 1)
                  /\ (At(RawLapdist, i) < At(lapdist_interp, i - 1) =>
                         At(lapdist_interp, i) = At(lapdist_interp, i - 1))

\* C10 witness: a returned trajectory with one detected reset and one drop of
\* more than 100 that landed at or above 500 and was clamped.
C10_Witness ==
    /\ Returned
    /\ reset_indices # <<>>
    /\ \E i \in InnerIdx :
          /\ RawDrop(i)
          /\ At(RawLapdist, i) >= Tenths(500)
          /\ At(lapdist_interp, i) = At(lapdist_interp, i - 1)

\* ------------------------------------------------------------------
\* detect_race_start  (processing/time_alignment.py)
\* Timestamps are integers in seconds; extract_signals leaves them sorted
\* and free of duplicates.
\* ------------------------------------------------------------------
MaxRows == 5

\* df['lapdist_diff'] < -1000
reset_drop == 1000
\* df['speed'] > 20
motion_threshold == 20
\* window_size = pd.Timedelta(seconds=3)
window_size == 3

StartLapVals == {0, 2000}
StartSpeeds == {20, 30}
StartGaps == {1, 3}

SignalTable(g, v, sp) ==
    [k \in 1..Len(v) |-> [timestamp |-> TimesFrom(g, 0)[k],
                          lapdist |-> v[k], speed |-> sp[k]]]

\* reset_indices: rows whose lapdist fell by more than 1000 from the row
\* before (diff() of the first row is NaN and compares false).
StartResetsLoose(tbl) ==
    {i \in 2..Len(tbl) : tbl[i].lapdist - tbl[i - 1].lapdist < 0}

StartResets(tbl) ==
    {i \in 2..Len(tbl) : tbl[i].lapdist - tbl[i - 1].lapdist < 0 - reset_drop}

is_moving(tbl, i) == tbl[i].speed > motion_threshold

\* rows selected by window_mask for the window starting at row i
WindowRows(tbl, i) ==
    {j \in 1..Len(tbl) :
        /\ tbl[j].timestamp >= tbl[i].timestamp
        /\ tbl[j].timestamp < tbl[i].timestamp + window_size}

\* len(window_moving) > 0 and window_moving.all()
WindowSatisfiedFirstOnly(tbl, i) == is_moving(tbl, i)

WindowSatisfied(tbl, i) ==
    /\ WindowRows(tbl, i) # {}
    /\ \A j \in WindowRows(tbl, i) : is_moving(tbl, j)

\* moving_window_starts (as a set of timestamps)
MovingWindowStarts(tbl) ==
    {tbl[i].timestamp : i \in {k \in 1..Len(tbl) : WindowSatisfied(tbl, k)}}

FirstOf(S) == CHOOSE i \in S : \A j \in S : i <= j

\* resets at or after some window start, in the order of the outer loop
ResetsAfterWindow(tbl) ==
    {r \in StartResets(tbl) :
        \E w \in MovingWindowStarts(tbl) : tbl[r].timestamp >= w}

\* the two fallback loops of lines 56-62
FallbackResetAnySpeed(tbl) ==
    [ts |-> tbl[FirstOf(StartResets(tbl))].timestamp, rule |-> "first_reset"]

FallbackReset(tbl) ==
    LET moving == {r \in StartResets(tbl) : tbl[r].speed > motion_threshold}
    IN  IF moving # {}
        THEN [ts |-> tbl[FirstOf(moving)].timestamp, rule |-> "moving_reset"]
        ELSE [ts |-> tbl[FirstOf(StartResets(tbl))].timestamp, rule |-> "first_reset"]

detect_race_start(tbl) ==
    IF StartResets(tbl) = {}
    THEN [ts |-> tbl[1].timestamp, rule |-> "first_timestamp"]
    ELSE IF ResetsAfterWindow(tbl) # {}
    THEN [ts |-> tbl[FirstOf(ResetsAfterWindow(tbl))].timestamp,
          rule |-> "sustained_motion"]
    ELSE FallbackReset(tbl)

DetectRaceStart ==
    /\ race_start = NotDetected
    /\ race_start' = detect_race_start(df)
    /\ UNCHANGED <<df, aligned, interpVars, worldVars, extVars>>

\* align_time: rows with rel_time >= 0 are kept, rebased on race_start
AlignedRows(tbl, start) ==
    SelectSeq([k \in 1..Len(tbl) |->
                  [rel_time |-> tbl[k].timestamp - start,
                   lapdist |-> tbl[k].lapdist, speed |-> tbl[k].speed]],
              LAMBDA r : r.rel_time >= 0)

AlignTime ==
    /\ race_start # NotDetected
    /\ aligned = <<>>
    /\ aligned' = AlignedRows(df, race_start.ts)
    /\ UNCHANGED <<df, race_start, interpVars, worldVars, extVars>>

InitStart ==
    /\ \E n \in 1..MaxRows :
          \E g \in [1..(n - 1) -> StartGaps],
             v \in [1..n -> StartLapVals],
             sp \in [1..n -> StartSpeeds] :
              df = SignalTable(g, v, sp)
    /\ race_start = NotDetected
    /\ aligned = <<>>
    /\ InterpIdle
    /\ WorldIdle
    /\ ExtIdle

NextStart == DetectRaceStart \/ AlignTime

SpecStart == InitStart /\ [][NextStart]_vars

\* ------------------------------------------------------------------
\* Properties of detect_race_start
\* ------------------------------------------------------------------
Detected == race_start # NotDetected

ResetTimes == {df[r].timestamp : r \in StartResets(df)}

\* Row i starts a window in which speed stayed above the threshold and for
\* which the log holds a full window_size of data.
FullWindow(i) ==
    /\ \A j \in WindowRows(df, i) : is_moving(df, j)
    /\ df[Len(df)].timestamp >= df[i].timestamp + window_size

FullWindowStarts == {df[i].timestamp : i \in {k \in 1..Len(df) : FullWindow(k)}}

\* C8: a reset returned by the sustained-motion rule is the earliest reset
\* at or after a timestamp from which speed stayed above the threshold for a
\* full 3 seconds of samples; a window cut short by the end of the log (only
\* the last sample, say) does not qualify.
C8_SustainedMotionNeedsFullWindow ==
    (Detected /\ race_start.rule = "sustained_motion") =>
        /\ race_start.ts \in ResetTimes
        /\ \E w \in FullWindowStarts : race_start.ts >= w
        /\ \A r \in ResetTimes :
              (\E w \in FullWindowStarts : r >= w) => race_start.ts <= r

\* The fallback chain: first reset with speed above the threshold, then the
\* first reset.
FallbackChain ==
    LET fast == {r \in StartResets(df) : df[r].speed > motion_threshold}
    IN  IF fast # {} THEN df[FirstOf(fast)].timestamp
        ELSE df[FirstOf(StartResets(df))].timestamp

NoResetIffFirstTimestamp ==
    /\ (StartResets(df) = {}) => race_start.ts = df[1].timestamp
    /\ (race_start.rule = "first_timestamp") <=> (StartResets(df) = {})

\* C9 (as claimed): if the first reset comes before any sustained-motion
\* window, the result is the fallback chain; the first timestamp is returned
\* only when there is no reset at all.
C9_FirstResetBeforeWindowFallsBack ==
    Detected =>
        /\ NoResetIffFirstTimestamp
        /\ (/\ StartResets(df) # {}
            /\ \A w \in MovingWindowStarts(df) :
                  df[FirstOf(StartResets(df))].timestamp < w)
           => race_start.ts = FallbackChain

\* C9 (amended): if every reset comes before every sample from which all
\* samples of the next 3 seconds are above the threshold, the result is the
\* fallback chain; the first timestamp is returned only when there is no
\* reset at all.
C9_AllResetsBeforeWindowFallBack ==
    Detected =>
        /\ NoResetIffFirstTimestamp
        /\ (/\ StartResets(df) # {}
            /\ \A r \in ResetTimes : \A w \in MovingWindowStarts(df) : r < w)
           => /\ race_start.ts = FallbackChain
              /\ race_start.rule \in {"moving_reset", "first_reset"}

\* C9 witness: two resets and no window at or before either of them, the
\* first reset slow and the second one fast: the second is returned.
C9_Witness ==
    /\ Detected
    /\ Cardinality(StartResets(df)) >= 2
    /\ \A r \in ResetTimes : \A w \in MovingWindowStarts(df) : r < w
    /\ race_start.rule = "moving_reset"
    /\ race_start.ts # df[FirstOf(StartResets(df))].timestamp

\* ------------------------------------------------------------------
\* WorldModel  (app/world_model.py)
\* Car ids are numbered in their string order: the tie-break of the race
\* order compares them.  A trajectory row keeps the columns the queries read:
\* x, y (columns 0, 1), lapdist (column 3), lap (column 10).
\* deviation_offsets are the zeros load_trajectories leaves.
\* ------------------------------------------------------------------
MaxCars == 2
MaxTrajLen == 2

\* playback times handed to the queries, in ms
TimeVals == {-15, -1, 9, 10, 25, 35}

Row(x, y, lap, lapdist) == [x |-> x, y |-> y, lap |-> lap, lapdist |-> lapdist]

\* rows of the race-order datasets: (lap, lapdist)
OrderRows == {Row(0, 0, 1, 5), Row(0, 0, 2, 0), Row(0, 0, 2, 5)}

\* rows of the deviation datasets: positions
Positions == {<<2, 1>>, <<2, -1>>, <<1, 1>>, <<4, 0>>, <<5, -2>>}
DevRows == {Row(p[1], p[2], 1, 0) : p \in Positions}

\* reference lines (ordered points)
LineEast == << <<0, 0>>, <<2, 0>>, <<4, 0>> >>
LineWest == << <<4, 0>>, <<2, 0>>, <<0, 0>> >>
LineNorth == << <<0, 0>>, <<0, 2>> >>
LineBend == << <<0, 0>>, <<2, 0>>, <<2, 2>> >>
LineStalled == << <<4, 0>>, <<4, 0>> >>
LineChoices == {LineEast, LineWest, LineNorth, LineBend, LineStalled}

ReferenceModes == {"racing_line", "global_racing_line", "individual"}

\* int(): truncation toward zero
Trunc(a, b) == IF a >= 0 THEN a \div b ELSE 0 - ((0 - a) \div b)

\* idx = int(time_ms / 10), lines 734-740
RawFrameIndexRounded(time_ms) == Trunc(2 * time_ms + 10, 20)

RawFrameIndex(time_ms) == Trunc(time_ms, dt_ms)

FrameIndex(traj, time_ms) ==
    LET idx == RawFrameIndex(time_ms)
        lo == IF idx < 0 THEN 0 ELSE idx
    IN  IF lo >= Len(traj) THEN Len(traj) - 1 ELSE lo

\* exact square root (the lines of the model have segments of whole length)
ISqrt(n) == CHOOSE r \in 0..n : r * r = n

SqDist(p, q) == (p[1] - q[1]) * (p[1] - q[1]) + (p[2] - q[2]) * (p[2] - q[2])

\* tree.query([cx, cy], k=1): an index of a nearest point; which one of
\* several equidistant points the tree reports is not specified.
NearestIdx(line, p) ==
    {k \in 0..(Len(line) - 1) :
        \A j \in 0..(Len(line) - 1) : SqDist(At(line, k), p) <= SqDist(At(line, j), p)}

\* lines 856-865
Tangent(line, idx_line) ==
    IF idx_line < Len(line) - 1
    THEN <<At(line, idx_line + 1)[1] - At(line, idx_line)[1],
           At(line, idx_line + 1)[2] - At(line, idx_line)[2]>>
    ELSE <<At(line, idx_line)[1] - At(line, idx_line - 1)[1],
           At(line, idx_line)[2] - At(line, idx_line - 1)[2]>>

\* lines 867-871
UnitTangentUnnormalised(line, idx_line) == Tangent(line, idx_line)

UnitTangent(line, idx_line) ==
    LET t == Tangent(line, idx_line)
        tlen == ISqrt(t[1] * t[1] + t[2] * t[2])
    IN  IF tlen > 0 THEN <<t[1] \div tlen, t[2] \div tlen>> ELSE t

\* lines 873-882
SignedDeviation(line, idx_line, p) ==
    LET t == UnitTangent(line, idx_line)
        nx == 0 - t[2]
        ny == t[1]
        vx == p[1] - At(line, idx_line)[1]
        vy == p[2] - At(line, idx_line)[2]
    IN  vx * nx + vy * ny

ZeroDeviation == [deviation |-> 0, ideal_x |-> 0, ideal_y |-> 0]

\* lines 816-837: the line the selected reference mode designates, or <<>>
ReferenceLine(car_id) ==
    IF lateral_diff_reference = "global_racing_line"
    THEN racing_line
    ELSE IF car_id \in DOMAIN per_car_racing_lines
         THEN per_car_racing_lines[car_id]
         ELSE <<>>

\* lines 839-888, idx_line being the answer of the KD-tree
compute_deviation(car_id, frame_idx, idx_line) ==
    LET line == ReferenceLine(car_id)
        traj == trajectories[car_id]
    IN  IF line = <<>> \/ frame_idx < 0 \/ frame_idx >= Len(traj)
        THEN ZeroDeviation
        ELSE LET p == <<At(traj, frame_idx).x, At(traj, frame_idx).y>>
             IN  [deviation |-> SignedDeviation(line, idx_line, p),
                  ideal_x |-> At(line, idx_line)[1],
                  ideal_y |-> At(line, idx_line)[2]]

\* the answers the KD-tree may give for this car and frame
TreeAnswers(car_id, frame_idx) ==
    LET line == ReferenceLine(car_id)
        traj == trajectories[car_id]
    IN  IF line = <<>> THEN {0}
        ELSE NearestIdx(line, <<At(traj, frame_idx).x, At(traj, frame_idx).y>>)

\* line 773: the gate in front of compute_deviation
DeviationGateByMode(car_id) ==
    \/ car_id \in DOMAIN per_car_racing_lines
    \/ lateral_diff_reference = "global_racing_line"

DeviationGate(car_id) == car_id \in DOMAIN per_car_racing_lines

\* get_car_state, lines 732-788
get_car_state(car_id, time_ms, idx_line) ==
    LET traj == trajectories[car_id]
        idx == FrameIndex(traj, time_ms)
        dev_info == IF DeviationGate(car_id)
                    THEN compute_deviation(car_id, idx, idx_line)
                    ELSE ZeroDeviation
    IN  [x |-> At(traj, idx).x, y |-> At(traj, idx).y,
         lapdist |-> At(traj, idx).lapdist, lap |-> At(traj, idx).lap,
         deviation |-> dev_info.deviation,
         ideal_x |-> dev_info.ideal_x, ideal_y |-> dev_info.ideal_y]

\* get_all_car_states, lines 890-895 (the order does not read the deviation)
get_all_car_states(time_ms) ==
    [c \in car_ids |->
        get_car_state(c, time_ms,
                      CHOOSE k \in TreeAnswers(c, FrameIndex(trajectories[c], time_ms)) : TRUE)]

\* the sort key (lap, lapdist, car_id), compared as Python compares tuples
KeyGreaterNoLap(states, a, b) ==
    LET sa == states[a]
        sb == states[b]
    IN  \/ sa.lapdist > sb.lapdist
        \/ sa.lapdist = sb.lapdist /\ a > b

KeyGreater(states, a, b) ==
    LET sa == states[a]
        sb == states[b]
    IN  \/ sa.lap > sb.lap
        \/ sa.lap = sb.lap /\ sa.lapdist > sb.lapdist
        \/ sa.lap = sb.lap /\ sa.lapdist = sb.lapdist /\ a > b

\* sorted(..., reverse=True), lines 925-929
RECURSIVE SortedCars(_, _)
SortedCars(states, cars) ==
    IF cars = {} THEN <<>>
    ELSE LET top == CHOOSE a \in cars : \A b \in cars \ {a} : KeyGreater(states, a, b)
         IN  <<top>> \o SortedCars(states, cars \ {top})

\* lines 938-944
LapsDownReversed(leader_lap, car_lap) == Max2(0, car_lap - leader_lap)

LapsDown(leader_lap, car_lap) ==
    LET lap_delta == leader_lap - car_lap
        clamped == IF lap_delta < 0 THEN 0 ELSE lap_delta
    IN  Max2(0, clamped)

\* get_race_order, lines 897-959
get_race_order(time_ms) ==
    LET states == get_all_car_states(time_ms)
    IN  IF car_ids = {}
        THEN [leader_id |-> None, cars |-> <<>>]
        ELSE LET sorted_cars == SortedCars(states, car_ids)
                 leader_id == sorted_cars[1]
                 leader_lap == states[leader_id].lap
                 PosOf(c) == CHOOSE pos \in 1..Len(sorted_cars) : sorted_cars[pos] = c
             IN  [leader_id |-> leader_id,
                  cars |-> [c \in car_ids |->
                      LET s == states[c]
                          laps_down == LapsDown(leader_lap, s.lap)
                      IN  [position |-> PosOf(c),
                           lap |-> s.lap,
                           lapdist |-> s.lapdist,
                           is_leader |-> (c = leader_id),
                           on_lead_lap |-> (laps_down = 0),
                           laps_down |-> laps_down]]]

\* TelemetryPanel.set_lateral_diff_reference
SetLateralDiffReference(mode) ==
    /\ mode # lateral_diff_reference
    /\ lateral_diff_reference' = mode
    /\ ret' = NoReturn
    /\ UNCHANGED <<car_ids, trajectories, racing_line, per_car_racing_lines,
                   interpVars, startVars, extVars>>

\* one call of get_car_state; ret keeps the arguments, the frame index read
\* and the reference mode in force next to the returned record
GetCarState(car_id, time_ms) ==
    /\ car_id \in car_ids
    /\ \E idx_line \in TreeAnswers(car_id, FrameIndex(trajectories[car_id], time_ms)) :
          ret' = [op |-> "get_car_state", car_id |-> car_id, time_ms |-> time_ms,
                  idx |-> FrameIndex(trajectories[car_id], time_ms),
                  reference |-> lateral_diff_reference,
                  state |-> get_car_state(car_id, time_ms, idx_line)]
    /\ UNCHANGED <<car_ids, trajectories, racing_line, per_car_racing_lines,
                   lateral_diff_reference, interpVars, startVars, extVars>>

\* one call of get_race_order
GetRaceOrder(time_ms) ==
    /\ ret' = [op |-> "get_race_order", time_ms |-> time_ms,
               order |-> get_race_order(time_ms)]
    /\ UNCHANGED <<car_ids, trajectories, racing_line, per_car_racing_lines,
                   lateral_diff_reference, interpVars, startVars, extVars>>

\* load_trajectories of a dataset of n cars (race-order datasets)
InitOrder ==
    /\ \E n \in 0..MaxCars :
          /\ car_ids = 1..n
          /\ trajectories \in [1..n -> SeqsOf(OrderRows, 1, MaxTrajLen)]
    /\ racing_line = LineEast
    /\ per_car_racing_lines = <<>>
    /\ lateral_diff_reference = "racing_line"
    /\ ret = NoReturn
    /\ InterpIdle
    /\ StartIdle
    /\ ExtIdle

\* get_race_order changes nothing of the world: one call per loaded dataset
\* reaches every result there is.
NextOrder == ret = NoReturn /\ \E t \in TimeVals : GetRaceOrder(t)

SpecOrder == InitOrder /\ [][NextOrder]_vars

\* load_trajectories of a one-car dataset, with or without a per-car line
InitDeviation ==
    /\ car_ids = {1}
    /\ trajectories \in [{1} -> SeqsOf(DevRows, 1, MaxTrajLen)]
    /\ racing_line \in LineChoices
    /\ \/ per_car_racing_lines = <<>>
       \/ \E l \in LineChoices : per_car_racing_lines = [c \in {1} |-> l]
    /\ lateral_diff_reference = "racing_line"
    /\ ret = NoReturn
    /\ InterpIdle
    /\ StartIdle
    /\ ExtIdle

NextDeviation ==
    \/ \E m \in ReferenceModes : SetLateralDiffReference(m)
    \/ \E c \in car_ids, t \in TimeVals : GetCarState(c, t)

SpecDeviation == InitDeviation /\ [][NextDeviation]_vars

\* ------------------------------------------------------------------
\* Properties of the runtime queries
\* ------------------------------------------------------------------
CarStateReturned == ret.op = "get_car_state"

OrderReturned == ret.op = "get_race_order"

\* floor(time_ms / 10) clamped to [0, n - 1]
ClampedFloorIndex(time_ms, n) ==
    LET f == time_ms \div 10
    IN  IF f < 0 THEN 0 ELSE IF f > n - 1 THEN n - 1 ELSE f

\* the trajectory row the claimed index designates
RowAtTime(c, time_ms) ==
    At(trajectories[c], ClampedFloorIndex(time_ms, Len(trajectories[c])))

\* the key (lap, lapdist, car_id) of car a is greater than that of car b
ClaimedKeyGreater(a, b, time_ms) ==
    LET ra == RowAtTime(a, time_ms)
        rb == RowAtTime(b, time_ms)
    IN  \/ ra.lap > rb.lap
        \/ ra.lap = rb.lap /\ ra.lapdist > rb.lapdist
        \/ ra.lap = rb.lap /\ ra.lapdist = rb.lapdist /\ a > b

\* C3: get_race_order ranks the cars in descending order of the key
\* (lap, lapdist, car_id) of their state at time_ms: positions are exactly
\* 1..N, position(a) < position(b) iff key(a) > key(b), the leader is the car
\* at position 1 and the only one flagged is_leader; without cars the result
\* is leader None and an empty map.
C3_RaceOrderRanksByKey ==
    OrderReturned =>
        LET o == ret.order
        IN  IF car_ids = {}
            THEN o.leader_id = None /\ o.cars = <<>>
            ELSE /\ DOMAIN o.cars = car_ids
                 /\ {o.cars[c].position : c \in car_ids} = 1..Cardinality(car_ids)
                 /\ \A a, b \in car_ids :
                       a # b => ((o.cars[a].position < o.cars[b].position)
                                    <=> ClaimedKeyGreater(a, b, ret.time_ms))
                 /\ \A c \in car_ids :
                       /\ o.cars[c].lap = RowAtTime(c, ret.time_ms).lap
                       /\ o.cars[c].lapdist = RowAtTime(c, ret.time_ms).lapdist
                       /\ o.cars[c].is_leader <=> (c = o.leader_id)
                 /\ o.leader_id \in car_ids
                 /\ o.cars[o.leader_id].position = 1

\* C3 witness: an order of several cars in which the car with the smaller id
\* leads a car on the same lap.
C3_Witness ==
    /\ OrderReturned
    /\ \E a, b \in car_ids :
          /\ a < b
          /\ ret.order.cars[a].lap = ret.order.cars[b].lap
          /\ ret.order.cars[a].position < ret.order.cars[b].position

\* C4: laps_down = max(0, leader.lap - car.lap) and is never negative,
\* on_lead_lap iff laps_down = 0, and the leader has laps_down 0 and
\* on_lead_lap true.
C4_LapsDownFromLeader ==
    (OrderReturned /\ car_ids # {}) =>
        LET o == ret.order
            leader == o.cars[o.leader_id]
        IN  /\ \A c \in car_ids :
                  /\ o.cars[c].laps_down = Max2(0, leader.lap - o.cars[c].lap)
                  /\ o.cars[c].laps_down >= 0
                  /\ o.cars[c].on_lead_lap <=> (o.cars[c].laps_down = 0)
            /\ leader.laps_down = 0
            /\ leader.on_lead_lap

\* C4 witness: an order with a lapped car.
C4_Witness ==
    /\ OrderReturned
    /\ \E c \in car_ids :
          ret.order.cars[c].laps_down > 0 /\ ~ret.order.cars[c].on_lead_lap

\* the raw position of the car in the frame the call read
RetPosition ==
    <<At(trajectories[ret.car_id], ret.idx).x, At(trajectories[ret.car_id], ret.idx).y>>

\* C5: in mode global_racing_line (the global line and its index are always
\* loaded) get_car_state returns deviation and ideal point against the
\* global line for every car, with or without a per-car racing line.
C5_GlobalModeUsesGlobalLine ==
    (CarStateReturned /\ ret.reference = "global_racing_line") =>
        \E k \in NearestIdx(racing_line, RetPosition) :
            /\ ret.state.deviation = SignedDeviation(racing_line, k, RetPosition)
            /\ ret.state.ideal_x = At(racing_line, k)[1]
            /\ ret.state.ideal_y = At(racing_line, k)[2]

\* the line the call measured against (empty when none was available)
RetLine ==
    IF ret.reference = "global_racing_line" THEN racing_line
    ELSE IF ret.car_id \in DOMAIN per_car_racing_lines
         THEN per_car_racing_lines[ret.car_id]
         ELSE <<>>

\* z component of tangent x (p - nearest): negative when p is to the right
\* of the direction of travel (x east, y north), positive when to the left
Cross(line, k, p) ==
    LET t == Tangent(line, k)
    IN  t[1] * (p[2] - At(line, k)[2]) - t[2] * (p[1] - At(line, k)[1])

Abs(n) == IF n < 0 THEN 0 - n ELSE n

\* C6: the deviation is positive exactly when the raw position lies to the
\* right of the reference line in its direction of travel, negative when it
\* lies to the left, and its magnitude is the distance along the unit normal.
C6_PositiveMeansRightOfLine ==
    (CarStateReturned /\ ret.car_id \in DOMAIN per_car_racing_lines /\ RetLine # <<>>) =>
        \E k \in NearestIdx(RetLine, RetPosition) :
            /\ ret.state.ideal_x = At(RetLine, k)[1]
            /\ ret.state.ideal_y = At(RetLine, k)[2]
            /\ Tangent(RetLine, k) # <<0, 0>> =>
                  /\ (ret.state.deviation > 0) <=> (Cross(RetLine, k, RetPosition) < 0)
                  /\ (ret.state.deviation < 0) <=> (Cross(RetLine, k, RetPosition) > 0)
                  /\ Abs(ret.state.deviation)
                        * ISqrt(SqDist(Tangent(RetLine, k), <<0, 0>>))
                     = Abs(Cross(RetLine, k, RetPosition))

\* C7: get_car_state reads row floor(time_ms / 10) clamped to
\* [0, len - 1] for every time_ms, and never indexes outside the trajectory.
C7_ReadsClampedFloorRow ==
    CarStateReturned =>
        LET traj == trajectories[ret.car_id]
        IN  /\ ret.idx = ClampedFloorIndex(ret.time_ms, Len(traj))
            /\ ret.idx \in 0..(Len(traj) - 1)
            /\ ret.state.x = At(traj, ret.idx).x
            /\ ret.state.y = At(traj, ret.idx).y
            /\ ret.state.lap = At(traj, ret.idx).lap
            /\ ret.state.lapdist = At(traj, ret.idx).lapdist

\* C7 witness: a call with a negative time that is no multiple of 10 ms
\* (floor and truncation differ) on a trajectory of several rows.
C7_Witness ==
    /\ CarStateReturned
    /\ ret.time_ms < 0
    /\ ret.time_ms % 10 # 0
    /\ Len(trajectories[ret.car_id]) > 1
    /\ ret.idx = 0

\* ------------------------------------------------------------------
\* Per-car racing lines  (processing/generate_per_car_racing_lines.py)
\* Lap distances of this part are whole metres.
\* ------------------------------------------------------------------
reset_threshold == 0 - 100
min_lap_points == 100
min_lap_range == 100
min_laps == 3

\* Recorded laps a trajectory is made of: n samples rising from lo to hi,
\* with or without one sample that falls back by a metre.
Lap ==
    [good |-> [n |-> 101, lo |-> 0, hi |-> 700, dip |-> FALSE],
     few_samples |-> [n |-> 100, lo |-> 0, hi |-> 700, dip |-> FALSE],
     short_range |-> [n |-> 101, lo |-> 500, hi |-> 599, dip |-> FALSE],
     edge_range |-> [n |-> 101, lo |-> 500, hi |-> 600, dip |-> FALSE],
     dip |-> [n |-> 101, lo |-> 0, hi |-> 700, dip |-> TRUE]]

LapProfile(k) ==
    LET v(j) == k.lo + ((k.hi - k.lo) * (j - 1)) \div (k.n - 1)
    IN  [i \in 1..k.n |-> IF k.dip /\ i = k.n \div 2 THEN v(i - 1) - 1 ELSE v(i)]

\* trajectory[:, 3] of a vehicle that drove the laps ks
RECURSIVE TrajectoryOf(_)
TrajectoryOf(ks) ==
    IF ks = <<>> THEN <<>> ELSE LapProfile(Head(ks)) \o TrajectoryOf(Tail(ks))

\* The (start, end) pairs of the laps, 0-based and end-exclusive.
segment_laps_by_lapdist(lapdist) ==
    LET resets ==
            {i \in 1..(Len(lapdist) - 1) : lapdist[i + 1] - lapdist[i] < reset_threshold}
        boundaries == {0} \cup resets \cup {Len(lapdist)}
    IN  {b \in boundaries \X boundaries :
            /\ b[1] < b[2]
            /\ \A c \in boundaries : ~(b[1] < c /\ c < b[2])
            /\ b[2] - b[1] > min_lap_points}

\* max - min of lapdist[start:end]
LapDistRange(lapdist, b) ==
    LET vals == {lapdist[i] : i \in (b[1] + 1)..b[2]}
    IN  (CHOOSE hi \in vals : \A x \in vals : x <= hi)
          - (CHOOSE lo \in vals : \A x \in vals : lo <= x)

LapInterpolatedAnyOrder(lapdist, b) == LapDistRange(lapdist, b) >= min_lap_range

\* the laps that reach interpolated_laps: not skipped at line 99
\* (np.all(np.diff(lap_lapdist) >= 0)), and interpolate_lap_to_grid did not
\* return None
LapInterpolated(lapdist, b) ==
    /\ \A i \in (b[1] + 1)..(b[2] - 1) : lapdist[i + 1] - lapdist[i] >= 0
    /\ LapDistRange(lapdist, b) >= min_lap_range

compute_per_car_racing_line(lapdist) ==
    LET lap_boundaries == segment_laps_by_lapdist(lapdist)
        interpolated_laps == {b \in lap_boundaries : LapInterpolated(lapdist, b)}
    IN  IF Cardinality(lap_boundaries) < min_laps
        THEN [raised |-> TRUE, n_laps |-> Cardinality(lap_boundaries)]
        ELSE IF Cardinality(interpolated_laps) < min_laps
        THEN [raised |-> TRUE, n_laps |-> Cardinality(interpolated_laps)]
        ELSE [raised |-> FALSE, n_laps |-> Cardinality(interpolated_laps)]

\* ------------------------------------------------------------------
\* generate_all_trajectories  (processing/generate_all_trajectories.py)
\* run by PreprocessingRunner  (app/preprocessing_runner.py)
\* ------------------------------------------------------------------
MaxVehicles == 2

\* The laps of a vehicle whose trajectory is saved.
LapChoices ==
    {<<Lap.good, Lap.good, Lap.good>>, <<Lap.good, Lap.good>>,
     <<Lap.good, Lap.good, Lap.dip>>, <<Lap.good, Lap.good, Lap.short_range>>,
     <<Lap.good, Lap.few_samples, Lap.good, Lap.edge_range>>,
     <<Lap.good, Lap.good, Lap.good, Lap.dip>>}

\* What happens to a vehicle inside the loop of lines 73-138: step is the
\* step (1..5) during which its iteration ends.  An exception is raised by
\* gps_to_xy (step 2) or by np.save (step 5).
Vehicles ==
    {[fate |-> "few_rows", step |-> 1, laps |-> <<>>],
     [fate |-> "few_after_align", step |-> 3, laps |-> <<>>],
     [fate |-> "interp_none", step |-> 4, laps |-> <<>>],
     [fate |-> "exception", step |-> 2, laps |-> <<>>],
     [fate |-> "exception", step |-> 5, laps |-> <<>>]}
      \cup {[fate |-> "ok", step |-> 5, laps |-> l] : l \in LapChoices}

\* One callback invocation; a fraction is kept as numerator and denominator.
Call(cb, num, den, msg) == [cb |-> cb, num |-> num, den |-> den, msg |-> msg]

\* report_progress numbering each job one too high
report_progress_next_job(from, to, total) ==
    [k \in 1..(to - from + 1) |-> Call("on_progress", from + k, total, "")]

\* report_progress(message, current_job, total_jobs) for the jobs from..to
report_progress(from, to, total) ==
    [k \in 1..(to - from + 1) |-> Call("on_progress", from + k - 1, total, "")]

\* Number of report_progress calls of one iteration of the vehicle loop.
VehicleReports(v) == IF v.fate = "ok" THEN 5 ELSE IF v.step = 5 THEN 4 ELSE v.step

\* current_job when the iteration ends, for vehicle_base_job = base
VehicleJob(v, base) == IF v.fate = "exception" THEN base + v.step ELSE base + 5

\* The iteration reaches trajectories[car_id] = trajectory (line 121).
VehicleSaved(v) == v.fate = "ok"

\* PreprocessingRunner.start
Start ==
    /\ ppc = "idle"
    /\ cancelled' = FALSE
    /\ ppc' = "load"
    /\ UNCHANGED <<telemetry, loop_index, pipe_trajectories, racing_line_metadata,
                   current_job, total_jobs, calls>>
    /\ UNCHANGED notPipeVars

\* PreprocessingRunner.cancel, called while the thread runs
Cancel ==
    /\ ppc \notin {"idle", "done"}
    /\ ~cancelled
    /\ cancelled' = TRUE
    /\ UNCHANGED <<telemetry, ppc, loop_index, pipe_trajectories, racing_line_metadata,
                   current_job, total_jobs, calls>>
    /\ UNCHANGED notPipeVars

\* lines 43-71: load_telemetry raises, or the vehicles are counted
LoadTelemetry ==
    /\ ppc = "load"
    /\ \/ /\ ppc' = "raised"
          /\ calls' = Append(calls, Call("on_progress", 0, 1, ""))
          /\ UNCHANGED <<current_job, total_jobs>>
       \/ /\ ppc' = "vehicles"
          /\ total_jobs' = 3 + (Len(telemetry) * 6)
          /\ current_job' = 2
          /\ calls' = Append(calls, Call("on_progress", 0, 1, ""))
                        \o report_progress(2, 2, 3 + (Len(telemetry) * 6))
    /\ loop_index' = 0
    /\ UNCHANGED <<telemetry, pipe_trajectories, racing_line_metadata, cancelled>>
    /\ UNCHANGED notPipeVars

\* lines 73-138: one iteration of the vehicle loop
ProcessVehicle ==
    /\ ppc = "vehicles"
    /\ loop_index < Len(telemetry)
    /\ LET v == telemetry[loop_index + 1]
           vehicle_base_job == 2 + (loop_index * 5)
       IN  /\ calls' = calls \o report_progress(vehicle_base_job + 1,
                                   vehicle_base_job + VehicleReports(v), total_jobs)
           /\ current_job' = VehicleJob(v, vehicle_base_job)
           /\ pipe_trajectories' =
                 IF VehicleSaved(v) THEN Append(pipe_trajectories, loop_index + 1)
                 ELSE pipe_trajectories
    /\ loop_index' = loop_index + 1
    /\ UNCHANGED <<telemetry, ppc, racing_line_metadata, total_jobs, cancelled>>
    /\ UNCHANGED notPipeVars

\* lines 140-159: no trajectory -> return None; otherwise the global racing
\* line, which compute_racing_line returns or fails to compute
GenerateRacingLine ==
    /\ ppc = "vehicles"
    /\ loop_index = Len(telemetry)
    /\ IF Len(pipe_trajectories) = 0
       THEN /\ ppc' = "returned_none"
            /\ UNCHANGED calls
       ELSE /\ calls' = calls \o report_progress(2 + (Len(telemetry) * 5) + 1,
                                   2 + (Len(telemetry) * 5) + 1, total_jobs)
            /\ ppc' \in {"per_car", "raised"}
    /\ loop_index' = 0
    /\ UNCHANGED <<telemetry, pipe_trajectories, racing_line_metadata,
                   current_job, total_jobs, cancelled>>
    /\ UNCHANGED notPipeVars

\* lines 163-173: one iteration of the per-car racing line loop
PerCarLine ==
    /\ ppc = "per_car"
    /\ loop_index < Len(pipe_trajectories)
    /\ \E line \in {compute_per_car_racing_line(lapdist) :
                     lapdist \in {TrajectoryOf(
                                     telemetry[pipe_trajectories[loop_index + 1]].laps)}} :
       LET car_id == pipe_trajectories[loop_index + 1]
           racing_line_job == 2 + (Len(telemetry) * 5) + 1
       IN  /\ current_job' = racing_line_job + 1 + loop_index
           /\ calls' = calls \o report_progress(racing_line_job + 1 + loop_index,
                                   racing_line_job + 1 + loop_index, total_jobs)
           /\ racing_line_metadata' =
                 IF line.raised THEN racing_line_metadata
                 ELSE racing_line_metadata \cup {car_id}
    /\ loop_index' = loop_index + 1
    /\ UNCHANGED <<telemetry, ppc, pipe_trajectories, total_jobs, cancelled>>
    /\ UNCHANGED notPipeVars

\* lines 175-267: metadata.json, then section compare processing, which is
\* unavailable, fails (the exception is caught) or completes
SaveMetadata ==
    /\ ppc = "per_car"
    /\ loop_index = Len(pipe_trajectories)
    /\ \E section \in {"unavailable", "raised", "complete"} :
          calls' = calls \o report_progress(total_jobs, total_jobs, total_jobs)
                     \o (IF section = "unavailable" THEN <<>>
                         ELSE <<Call("on_progress", 85, 100, "")>>)
                     \o (IF section = "complete"
                         THEN <<Call("on_progress", 95, 100, "")>> ELSE <<>>)
    /\ ppc' = "returned_metadata"
    /\ UNCHANGED <<telemetry, loop_index, pipe_trajectories, racing_line_metadata,
                   current_job, total_jobs, cancelled>>
    /\ UNCHANGED notPipeVars

RunPreprocessingNoneCompletes(outcome, c) ==
    IF outcome = "raised" THEN <<Call("on_error", 0, 0, "Processing failed")>>
    ELSE IF c THEN <<>>
    ELSE <<Call("on_progress", 1, 1, "Complete!"), Call("on_complete", 0, 0, "")>>

\* _run_preprocessing, lines 61-76: the callbacks invoked once
\* generate_all_trajectories has returned or raised
RunPreprocessing(outcome, c) ==
    IF outcome = "raised" THEN <<Call("on_error", 0, 0, "Processing failed")>>
    ELSE IF c THEN <<>>
    ELSE IF outcome = "returned_none"
    THEN <<Call("on_error", 0, 0, "No vehicles processed successfully")>>
    ELSE <<Call("on_progress", 1, 1, "Complete!"), Call("on_complete", 0, 0, "")>>

\* _run_preprocessing without the return of line 66
RunnerFinishNoReturn ==
    /\ ppc \in {"raised", "returned_none", "returned_metadata"}
    /\ calls' = calls \o RunPreprocessing(ppc, cancelled)
                   \o (IF ppc = "returned_none" /\ ~cancelled
                       THEN RunPreprocessing("returned_metadata", cancelled) ELSE <<>>)
    /\ ppc' = "done"
    /\ UNCHANGED <<telemetry, loop_index, pipe_trajectories, racing_line_metadata,
                   current_job, total_jobs, cancelled>>
    /\ UNCHANGED notPipeVars

RunnerFinish ==
    /\ ppc \in {"raised", "returned_none", "returned_metadata"}
    /\ calls' = calls \o RunPreprocessing(ppc, cancelled)
    /\ ppc' = "done"
    /\ UNCHANGED <<telemetry, loop_index, pipe_trajectories, racing_line_metadata,
                   current_job, total_jobs, cancelled>>
    /\ UNCHANGED notPipeVars

\* a raw CSV with up to MaxVehicles vehicles; the runner is constructed
InitPipeline ==
    /\ \E n \in 0..MaxVehicles : telemetry \in [1..n -> Vehicles]
    /\ ppc = "idle"
    /\ loop_index = 0
    /\ pipe_trajectories = <<>>
    /\ racing_line_metadata = {}
    /\ current_job = 0
    /\ total_jobs = 0
    /\ calls = <<>>
    /\ cancelled = FALSE
    /\ NotPipeIdle

NextPipeline ==
    \/ Start
    \/ Cancel
    \/ LoadTelemetry
    \/ ProcessVehicle
    \/ GenerateRacingLine
    \/ PerCarLine
    \/ SaveMetadata
    \/ RunnerFinish

SpecPipeline == InitPipeline /\ [][NextPipeline]_vars

\* ------------------------------------------------------------------
\* Properties of the preprocessing job
\* ------------------------------------------------------------------
Range(s) == {s[k] : k \in DOMAIN s}

CallsOf(cb) == {k \in DOMAIN calls : calls[k].cb = cb}

\* load_telemetry has returned
Loaded == total_jobs > 0

\* Vehicles the loop of lines 73-138 has gone through.
VehiclesVisited ==
    IF ~Loaded THEN 0 ELSE IF ppc = "vehicles" THEN loop_index ELSE Len(telemetry)

\* A failing vehicle is skipped and the vehicles after it are still
\* processed: the saved trajectories are those of the vehicles visited so far
\* that did not fail, in order, and once the loop is over every vehicle has
\* been visited.
FailingVehiclesSkipped ==
    /\ Range(pipe_trajectories) =
          {k \in 1..VehiclesVisited : telemetry[k].fate = "ok"}
    /\ \A a, b \in DOMAIN pipe_trajectories :
          a < b => pipe_trajectories[a] < pipe_trajectories[b]
    /\ (ppc \in {"per_car", "returned_none", "returned_metadata"})
          => VehiclesVisited = Len(telemetry)

NoVehicleSucceeded == ppc = "done" /\ pipe_trajectories = <<>>

EndsWithOnError ==
    /\ calls # <<>>
    /\ calls[Len(calls)].cb = "on_error"
    /\ Cardinality(CallsOf("on_error")) = 1

DropAfter(l, i) == l[i + 1] < l[i] - 100

LapEnd(l, a) ==
    CHOOSE e \in a..Len(l) :
        /\ e = Len(l) \/ DropAfter(l, e)
        /\ \A m \in a..(e - 1) : ~DropAfter(l, m)

UsableLapStarts(l) ==
    {a \in {1} \cup {i + 1 : i \in {m \in 1..(Len(l) - 1) : DropAfter(l, m)}} :
        LET e == LapEnd(l, a)
        IN  /\ e - a + 1 > 100
            /\ \A m \in a..(e - 1) : l[m] <= l[m + 1]
            /\ l[e] - l[a] >= 100}

\* Saved vehicles the per-car loop of lines 163-173 has gone through.
PerCarVisited ==
    {pipe_trajectories[k] :
        k \in 1..(IF ppc = "per_car" THEN loop_index ELSE Len(pipe_trajectories))}

\* C16: compute_per_car_racing_line raises iff the trajectory holds fewer
\* than 3 usable laps (more than 100 samples, non-decreasing lapdist, range
\* of at least 100); in the batch a vehicle for which it raises gets no
\* metadata entry, and the vehicles after it still get theirs.
C16_RaisesIffFewerThanThreeUsableLaps ==
    (ppc \in {"per_car", "returned_metadata"}) =>
        racing_line_metadata =
            {c \in PerCarVisited :
                Cardinality(UsableLapStarts(TrajectoryOf(telemetry[c].laps))) >= 3}

\* the first saved vehicle has two usable laps and no entry, the second has
\* three and its entry
C16_Witness ==
    /\ ppc = "returned_metadata"
    /\ Len(pipe_trajectories) = 2
    /\ pipe_trajectories[1] \notin racing_line_metadata
    /\ pipe_trajectories[2] \in racing_line_metadata
    /\ Len(telemetry[pipe_trajectories[1]].laps) >= 3

\* ------------------------------------------------------------------
\* app/loading_screen.py, app/app_state.py, app/main.py:
\* choosing the input, the state machine and the runner's callbacks
\* ------------------------------------------------------------------
\* What a dropped or selected path holds: a raw CSV (with its number of
\* vehicles and whether the core channel names occur), a folder (with or
\* without metadata.json), or a file of another type.
DroppedPaths ==
    [p \in {"race.csv", "no_vehicles.csv", "no_core_channels.csv",
            "notes.txt", "processed", "empty_dir"} |->
        CASE p = "race.csv" ->
                 [kind |-> "csv", vehicles |-> 2, core_channels |-> TRUE, metadata |-> FALSE]
          [] p = "no_vehicles.csv" ->
                 [kind |-> "csv", vehicles |-> 0, core_channels |-> TRUE, metadata |-> FALSE]
          [] p = "no_core_channels.csv" ->
                 [kind |-> "csv", vehicles |-> 2, core_channels |-> FALSE, metadata |-> FALSE]
          [] p = "notes.txt" ->
                 [kind |-> "other", vehicles |-> 0, core_channels |-> FALSE, metadata |-> FALSE]
          [] p = "processed" ->
                 [kind |-> "dir", vehicles |-> 0, core_channels |-> FALSE, metadata |-> TRUE]
          [] OTHER ->
                 [kind |-> "dir", vehicles |-> 0, core_channels |-> FALSE, metadata |-> FALSE]]

\* the names processing/load_raw_data.py defines
load_raw_data_exports ==
    {"load_telemetry", "get_vehicle_ids", "extract_signals", "gps_to_xy"}

\* The validation the else-branch of _validate_and_load_csv would call:
\* vehicle count > 0 and the core channel names present.
validate_csv_format(file_path) ==
    LET f == DroppedPaths[file_path]
    IN  [is_valid |-> f.vehicles > 0 /\ f.core_channels,
         message  |-> IF f.vehicles = 0 THEN "no vehicles"
                      ELSE IF ~f.core_channels THEN "missing core channels"
                      ELSE "ok"]

\* LoadingScreen._validate_and_load_csv.  The import raises ImportError when
\* load_raw_data does not define validate_csv_format, and the file is then
\* loaded without validation.  set_input_file transitions to PROCESSING, and
\* the state-change handler starts a PreprocessingRunner on the file.
ValidateAndLoadCsv(file_path) ==
    IF "validate_csv_format" \notin load_raw_data_exports
         \/ validate_csv_format(file_path).is_valid
    THEN /\ input_file_path' = file_path
         /\ error_message' = None
         /\ app_state' = "processing"
         /\ runner_jobs' = runner_jobs \cup {file_path}
    ELSE /\ error_message' = "Invalid CSV format"
         /\ app_state' = "error"
         /\ UNCHANGED <<input_file_path, runner_jobs>>

\* _on_files_dropped and handle_file_drop; the buttons and dialogs of the
\* waiting screen take the same branches.
HandleFileDrop(file_path) ==
    /\ app_state = "waiting_for_file"
    /\ LET f == DroppedPaths[file_path]
       IN  CASE f.kind = "dir" /\ f.metadata ->
                   /\ output_dir' = file_path
                   /\ input_file_path' = None
                   /\ error_message' = None
                   /\ app_state' = "ready"
                   /\ UNCHANGED runner_jobs
             [] f.kind = "dir" /\ ~f.metadata ->
                   /\ error_message' = "Invalid folder"
                   /\ app_state' = "error"
                   /\ UNCHANGED <<input_file_path, output_dir, runner_jobs>>
             [] f.kind = "csv" ->
                   /\ ValidateAndLoadCsv(file_path)
                   /\ UNCHANGED output_dir
             [] OTHER ->
                   /\ error_message' = "Invalid file type"
                   /\ app_state' = "error"
                   /\ UNCHANGED <<input_file_path, output_dir, runner_jobs>>
    /\ UNCHANGED progress_percent
    /\ UNCHANGED notAppVars

\* _on_preprocessing_progress, called by the running job
OnPreprocessingProgress(percent) ==
    /\ app_state = "processing"
    /\ progress_percent' = percent
    /\ UNCHANGED <<app_state, input_file_path, output_dir, error_message, runner_jobs>>
    /\ UNCHANGED notAppVars

\* _on_preprocessing_complete: a job ends with on_complete only when
\* some vehicle of its file was processed
OnPreprocessingComplete ==
    /\ app_state = "processing"
    /\ DroppedPaths[input_file_path].vehicles > 0
    /\ output_dir' = "processed"
    /\ app_state' = "ready"
    /\ UNCHANGED <<input_file_path, error_message, progress_percent, runner_jobs>>
    /\ UNCHANGED notAppVars

\* _on_preprocessing_error
OnPreprocessingError ==
    /\ app_state = "processing"
    /\ error_message' \in {"Processing failed", "No vehicles processed successfully"}
    /\ app_state' = "error"
    /\ UNCHANGED <<input_file_path, output_dir, progress_percent, runner_jobs>>
    /\ UNCHANGED notAppVars

\* the Try Again button of the error screen: StateManager.reset
Retry ==
    /\ app_state = "error"
    /\ input_file_path' = None
    /\ output_dir' = None
    /\ error_message' = None
    /\ progress_percent' = 0
    /\ app_state' = "waiting_for_file"
    /\ UNCHANGED runner_jobs
    /\ UNCHANGED notAppVars

InitApp == AppIdle /\ NotAppIdle

NextApp ==
    \/ \E p \in DOMAIN DroppedPaths : HandleFileDrop(p)
    \/ \E percent \in {0, 50, 100} : OnPreprocessingProgress(percent)
    \/ OnPreprocessingComplete
    \/ OnPreprocessingError
    \/ Retry

SpecApp == InitApp /\ [][NextApp]_vars

\* ------------------------------------------------------------------
\* Properties of the input validation
\* ------------------------------------------------------------------
InvalidCsv(p) ==
    /\ p \in DOMAIN DroppedPaths
    /\ DroppedPaths[p].kind = "csv"
    /\ DroppedPaths[p].vehicles = 0 \/ ~DroppedPaths[p].core_channels

\* C12: a raw CSV without vehicles or without the core channel names never
\* becomes the file of state PROCESSING, and no preprocessing job is ever
\* started on it.
C12_InvalidCsvNeverProcessed ==
    /\ \A p \in runner_jobs : ~InvalidCsv(p)
    /\ app_state = "processing" => ~InvalidCsv(input_file_path)

\* ------------------------------------------------------------------
\* app/world_model.py: lap starts and sector times
\* Times are integers in milliseconds (frame index * 10); the code divides
\* them by 1000.0 on storing.
\* ------------------------------------------------------------------
\* lapdist of one lap, one value per 10 ms frame
SectorLap(kind) ==
    CASE kind = "full"    -> [i \in 1..12 |-> (i - 1) * 100]
      [] kind = "fast"    -> [i \in 1..10 |-> (i - 1) * 150]
      [] kind = "few"     -> [i \in 1..9  |-> (i - 1) * 120]
      [] kind = "partial" -> [i \in 1..10 |-> (i - 1) * 50]
      [] kind = "late"    -> [i \in 1..10 |-> 400 + ((i - 1) * 100)]
      [] kind = "pit"     -> <<0, 160, 320, 480, 640, 700, 750, 790, 820, 840>>
      [] OTHER            -> [i \in 1..12 |-> IF i = 5 THEN 260 ELSE (i - 1) * 100]

RECURSIVE SectorTrajectory(_)
SectorTrajectory(kinds) ==
    IF kinds = <<>> THEN <<>>
    ELSE LET lap == SectorLap(Head(kinds))
         IN  [i \in 1..Len(lap) |-> Row(0, 0, 1, lap[i])] \o SectorTrajectory(Tail(kinds))

\* the trajectories a dataset holds: laps in order, the last one still running
SectorTrajectories ==
    {SectorTrajectory(kinds) : kinds \in
        {<<"full">>, <<"full", "fast">>, <<"fast", "wobble", "full">>,
         <<"few", "full", "fast">>, <<"partial", "fast", "late">>,
         <<"late", "partial", "full">>, <<"partial", "late", "full">>,
         <<"pit", "full">>, <<"full", "pit", "full">>}}

\* sector_map.json written for n sectors over a track of 900 m; no file for n = 0
SectorMap(n) == [k \in 1..n |-> <<((k - 1) * 900) \div n, (k * 900) \div n>>]

\* _compute_lap_data
compute_lap_data(traj) ==
    LET starts == {0} \cup {i \in 1..(Len(traj) - 1) :
                               At(traj, i).lapdist < At(traj, i - 1).lapdist - 100}
    IN  CHOOSE s \in [1..Cardinality(starts) -> starts] :
            \A a, b \in 1..Cardinality(starts) : a < b => s[a] < s[b]

SectorEndIdxStrict(lap_lapdist, end_dist) ==
    LET hits == {i \in 0..(Len(lap_lapdist) - 1) : At(lap_lapdist, i) > end_dist}
    IN  IF hits = {} THEN 0 - 1 ELSE FirstOf(hits)

\* lines 520-525: the first frame of the lap where lapdist crosses the
\* sector end; -1 stands for None
SectorEndIdx(lap_lapdist, end_dist) ==
    LET hits == {i \in 0..(Len(lap_lapdist) - 1) : At(lap_lapdist, i) >= end_dist}
    IN  IF hits = {} THEN 0 - 1 ELSE FirstOf(hits)

\* lines 515-536: sector_times of one lap from sector k on; -1 stands for None
RECURSIVE SectorScan(_, _, _, _)
SectorScan(lap_lapdist, lap_start, k, prev_sector_time) ==
    IF k > Len(sector_boundaries) THEN <<>>
    ELSE LET sector_end_idx == SectorEndIdx(lap_lapdist, sector_boundaries[k][2])
             t == (lap_start + sector_end_idx) * 10
         IN  IF sector_end_idx >= 0
             THEN <<t - prev_sector_time>> \o SectorScan(lap_lapdist, lap_start, k + 1, t)
             ELSE <<0 - 1>> \o SectorScan(lap_lapdist, lap_start, k + 1, prev_sector_time)

\* _compute_car_sector_times, the loop over the completed laps.  best_sectors
\* has three entries: resolving a fourth sector raises IndexError.
RECURSIVE CarLapLoop(_, _, _, _)
CarLapLoop(traj, lap_starts, lap_idx, acc) ==
    IF lap_idx >= Len(lap_starts) - 1 THEN acc
    ELSE
      LET lap_start == At(lap_starts, lap_idx)
          lap_end == At(lap_starts, lap_idx + 1)
          lap_lapdist == [i \in 1..(lap_end - lap_start) |-> traj[lap_start + i].lapdist]
          sector_times == SectorScan(lap_lapdist, lap_start, 1, lap_start * 10)
          resolved == {k \in DOMAIN sector_times : sector_times[k] >= 0}
          RECURSIVE SumTo(_)
          SumTo(k) == IF k = 0 THEN 0 ELSE sector_times[k] + SumTo(k - 1)
      IN  IF Len(lap_lapdist) < 10 THEN CarLapLoop(traj, lap_starts, lap_idx + 1, acc)
          ELSE IF \E k \in resolved : k > 3 THEN [acc EXCEPT !.raised = TRUE]
          ELSE CarLapLoop(traj, lap_starts, lap_idx + 1,
                 [raised |-> FALSE,
                  best_sectors |->
                      [k \in 1..3 |-> IF k \in resolved /\ sector_times[k] < acc.best_sectors[k]
                                      THEN sector_times[k] ELSE acc.best_sectors[k]],
                  sector_times |->
                      IF resolved = DOMAIN sector_times
                      THEN ((lap_idx + 1) :> sector_times) @@ acc.sector_times
                      ELSE acc.sector_times,
                  lap_times |->
                      IF resolved = DOMAIN sector_times
                      THEN Append(acc.lap_times, SumTo(Len(sector_times)))
                      ELSE acc.lap_times])

\* _compute_all_sector_times, lines 357-358: the cars in order, until one raises
RECURSIVE CarLoop(_, _)
CarLoop(car_id, acc) ==
    IF car_id \notin car_ids \/ acc.raised THEN acc
    ELSE IF Len(lap_data[car_id]) < 2 THEN CarLoop(car_id + 1, acc)
    ELSE LET r == CarLapLoop(trajectories[car_id], lap_data[car_id], 0,
                     [raised |-> FALSE, best_sectors |-> <<inf, inf, inf>>,
                      sector_times |-> <<>>, lap_times |-> <<>>])
         IN  CarLoop(car_id + 1,
                [raised |-> r.raised,
                 sector_times |-> (car_id :> r.sector_times) @@ acc.sector_times,
                 lap_times |-> (car_id :> r.lap_times) @@ acc.lap_times,
                 best_sectors |-> IF r.raised THEN acc.best_sectors
                                  ELSE (car_id :> r.best_sectors) @@ acc.best_sectors])

\* load_trajectories, line 202: _compute_lap_data for every car
ComputeLapData ==
    /\ spc = "loaded"
    /\ lap_data' = [c \in car_ids |-> compute_lap_data(trajectories[c])]
    /\ spc' = "lap_data"
    /\ UNCHANGED <<sector_boundaries, car_sector_times, car_lap_times,
                   car_best_sectors, overall_best_sectors>>
    /\ UNCHANGED notSectorVars

\* _load_sector_data
LoadSectorData(n) ==
    /\ spc = "lap_data"
    /\ sector_boundaries' = SectorMap(n)
    /\ spc' = "sector_data"
    /\ UNCHANGED <<lap_data, car_sector_times, car_lap_times,
                   car_best_sectors, overall_best_sectors>>
    /\ UNCHANGED notSectorVars

\* _compute_all_sector_times
ComputeAllSectorTimes ==
    /\ spc = "sector_data"
    /\ IF Len(sector_boundaries) = 0
       THEN /\ spc' = "returned"
            /\ UNCHANGED <<car_sector_times, car_lap_times, car_best_sectors,
                           overall_best_sectors>>
       ELSE LET r == CarLoop(1, [raised |-> FALSE, sector_times |-> <<>>,
                                  lap_times |-> <<>>, best_sectors |-> <<>>])
            IN  /\ car_sector_times' = r.sector_times
                /\ car_lap_times' = r.lap_times
                /\ car_best_sectors' = r.best_sectors
                /\ overall_best_sectors' =
                      IF r.raised THEN overall_best_sectors
                      ELSE [i \in 1..3 |->
                              LET bests == {r.best_sectors[c][i] : c \in DOMAIN r.best_sectors}
                                             \cup {overall_best_sectors[i]}
                              IN  FirstOf(bests)]
                /\ spc' = IF r.raised THEN "raised" ELSE "returned"
    /\ UNCHANGED <<lap_data, sector_boundaries>>
    /\ UNCHANGED notSectorVars

\* load_trajectories has read the trajectories of up to MaxCars cars
InitSector ==
    /\ \E n \in 1..MaxCars :
          /\ car_ids = 1..n
          /\ trajectories \in [1..n -> SectorTrajectories]
    /\ racing_line = <<>>
    /\ per_car_racing_lines = <<>>
    /\ lateral_diff_reference = "racing_line"
    /\ ret = NoReturn
    /\ lap_data = <<>>
    /\ sector_boundaries = <<>>
    /\ car_sector_times = <<>>
    /\ car_lap_times = <<>>
    /\ car_best_sectors = <<>>
    /\ overall_best_sectors = <<inf, inf, inf>>
    /\ spc = "loaded"
    /\ NotSectorIdle

NextSector ==
    \/ ComputeLapData
    \/ \E n \in 0..4 : LoadSectorData(n)
    \/ ComputeAllSectorTimes

SpecSector == InitSector /\ [][NextSector]_vars

\* ------------------------------------------------------------------
\* Properties of the sector times
\* ------------------------------------------------------------------
\* frames of completed lap lap_num of car c: from its lap start up to the next
LapFrames(c, lap_num) == lap_data[c][lap_num]..(lap_data[c][lap_num + 1] - 1)

\* frames of that lap at or beyond the end distance of sector k
CrossingFrames(c, lap_num, k) ==
    {f \in LapFrames(c, lap_num) : At(trajectories[c], f).lapdist >= sector_boundaries[k][2]}

\* time (ms) of the boundary that opens sector k of the lap
BoundaryTime(c, lap_num, k) ==
    IF k = 1 THEN lap_data[c][lap_num] * 10
    ELSE FirstOf(CrossingFrames(c, lap_num, k - 1)) * 10

AllSectorsResolved(c, lap_num) ==
    \A k \in DOMAIN sector_boundaries : CrossingFrames(c, lap_num, k) # {}

StoredLaps(c) == DOMAIN car_sector_times[c]

\* C13: every lap stored in car_sector_times is a completed lap all of whose
\* sectors resolved; its time for sector k is the time of the first 10 ms
\* frame with lapdist >= the end of sector k minus the time of the previous
\* sector boundary (the lap start for k = 1); car_lap_times holds one lap
\* time, the sum of the sector times, per stored lap and in lap order.
C13_SectorTimesFromFirstCrossing ==
    \A c \in DOMAIN car_sector_times :
       /\ \A lap_num \in StoredLaps(c) :
             /\ lap_num \in 1..(Len(lap_data[c]) - 1)
             /\ AllSectorsResolved(c, lap_num)
             /\ DOMAIN car_sector_times[c][lap_num] = DOMAIN sector_boundaries
             /\ \A k \in DOMAIN sector_boundaries :
                   car_sector_times[c][lap_num][k] =
                      (FirstOf(CrossingFrames(c, lap_num, k)) * 10)
                         - BoundaryTime(c, lap_num, k)
       /\ Len(car_lap_times[c]) = Cardinality(StoredLaps(c))
       /\ \A lap_num \in StoredLaps(c) :
             LET pos == Cardinality({l \in StoredLaps(c) : l <= lap_num})
                 last == Len(sector_boundaries)
             IN  car_lap_times[c][pos] =
                    (FirstOf(CrossingFrames(c, lap_num, last)) * 10)
                       - (lap_data[c][lap_num] * 10)

\* a car with a stored lap whose first two sector times differ,
\* and a completed lap of ten frames or more that was not stored because a
\* sector did not resolve
C13_Witness ==
    /\ spc = "returned"
    /\ \E c \in DOMAIN car_sector_times : \E lap_num \in StoredLaps(c) :
          /\ Len(sector_boundaries) = 3
          /\ car_sector_times[c][lap_num][1] # car_sector_times[c][lap_num][2]
    /\ \E c \in DOMAIN car_sector_times : \E lap_num \in 1..(Len(lap_data[c]) - 1) :
          /\ Cardinality(LapFrames(c, lap_num)) >= 10
          /\ ~AllSectorsResolved(c, lap_num)
          /\ lap_num \notin StoredLaps(c)

\* ------------------------------------------------------------------
\* processing/section_compare_processing.py: canonical line, ideal lap
\* time and sectors.  Coordinates are metres, distances along the line are
\* tenths of a metre (the square root is taken to that precision), times
\* are 1/300 s, so that distance / speed is exact for the speeds used.
\* ------------------------------------------------------------------
\* per-car median lines on the common grid
CarMedianLines ==
    {<< <<0, 0>>, <<2, 0>>, <<4, 0>>, <<6, 0>> >>,
     << <<6, 0>>, <<4, 0>>, <<2, 0>>, <<0, 0>> >>,
     << <<0, 0>>, <<2, 0>>, <<2, 2>>, <<4, 2>> >>,
     << <<0, 0>>, <<2, 0>>, <<2, 0>>, <<4, 0>> >>,
     << <<0, 0>>, <<2, 2>>, <<4, 4>>, <<6, 6>> >>}

\* values of ideal_speed_ms after np.clip(ideal_speed_ms, 15.0, None)
IdealSpeeds == {15, 30}

\* twice np.median(vals): the middle value of an odd number of values, the
\* mean of the two middle values of an even number
Median2(vals) ==
    LET n == Len(vals)
        Kth(k) == CHOOSE v \in Range(vals) :
                     /\ Cardinality({a \in 1..n : vals[a] < v}) < k
                     /\ Cardinality({a \in 1..n : vals[a] <= v}) >= k
    IN  IF n % 2 = 1 THEN 2 * Kth((n + 1) \div 2)
        ELSE Kth(n \div 2) + Kth((n \div 2) + 1)

\* np.median of the even coordinates of the median lines
Median(vals) == Median2(vals) \div 2

\* np.sqrt, to the precision of the distances
FloorSqrt(n) == CHOOSE r \in 0..n : r * r <= n /\ (r + 1) * (r + 1) > n

\* compute_canonical_line_and_curvature, lines 515-538
compute_canonical_line(lines) ==
    LET cars == DOMAIN lines
        n_points == Len(lines[1])
        canonical_x == [i \in 1..n_points |-> Median([c \in cars |-> lines[c][i][1]])]
        canonical_y == [i \in 1..n_points |-> Median([c \in cars |-> lines[c][i][2]])]
        canonical_ds ==
            [i \in 1..n_points |->
                IF i = 1 THEN 0
                ELSE LET dx == canonical_x[i] - canonical_x[i - 1]
                         dy == canonical_y[i] - canonical_y[i - 1]
                     IN  FloorSqrt(100 * ((dx * dx) + (dy * dy)))]
        RECURSIVE s_canon(_)
        s_canon(i) == IF i = 0 THEN 0 ELSE canonical_ds[i] + s_canon(i - 1)
    IN  [i \in 1..n_points |->
            [dist_m |-> s_canon(i), x_m |-> canonical_x[i], y_m |-> canonical_y[i],
             ideal_speed_ms |-> 0, ideal_time_s |-> 0]]

\* lines 640-647: ds / ideal_speed_ms, cumulated
IdealTimes(line, ideal_speed_ms) ==
    LET dt_seg == [i \in DOMAIN line |->
                      ((IF i = 1 THEN 0 ELSE line[i].dist_m - line[i - 1].dist_m) * 30)
                         \div ideal_speed_ms[i]]
        RECURSIVE cumsum(_)
        cumsum(i) == IF i = 0 THEN 0 ELSE dt_seg[i] + cumsum(i - 1)
    IN  [i \in DOMAIN line |-> cumsum(i)]

\* lines 650-676: sectors of equal distance.  The edges are
\* total_dist * i / n_sectors; start_dist_m and end_dist_m are kept
\* multiplied by n_sectors.
Sectors(line, n_sectors) ==
    LET total_dist == line[Len(line)].dist_m
    IN  [k \in 1..n_sectors |->
            LET mask == {i \in DOMAIN line :
                            /\ line[i].dist_m * n_sectors >= total_dist * (k - 1)
                            /\ IF k < n_sectors
                               THEN line[i].dist_m * n_sectors < total_dist * k
                               ELSE line[i].dist_m * n_sectors <= total_dist * k}
                last == CHOOSE i \in mask : \A j \in mask : j <= i
            IN  [sector |-> k,
                 start_dist_m |-> total_dist * (k - 1),
                 end_dist_m |-> total_dist * k,
                 ideal_time_s |-> IF mask = {} THEN 0
                                  ELSE line[last].ideal_time_s
                                         - line[FirstOf(mask)].ideal_time_s]]

ComputeCanonicalLine ==
    /\ cpc = "filtered"
    /\ canonical_line' = compute_canonical_line(car_median_line_filtered)
    /\ cpc' = "canonical"
    /\ UNCHANGED <<car_median_line_filtered, sector_info, sector_payload>>
    /\ UNCHANGED notCanonVars

\* compute_ideal_speed_and_sectors; compute_speed_profiles before it divides
\* by the track length
ComputeIdealSpeedAndSectors(ideal_speed_ms, n_sectors) ==
    /\ cpc = "canonical"
    /\ canonical_line[Len(canonical_line)].dist_m > 0
    /\ LET ideal_time_s == IdealTimes(canonical_line, ideal_speed_ms)
           line == [i \in DOMAIN canonical_line |->
                      [canonical_line[i] EXCEPT !.ideal_speed_ms = ideal_speed_ms[i],
                                                !.ideal_time_s = ideal_time_s[i]]]
       IN  /\ canonical_line' = line
           /\ sector_info' = Sectors(line, n_sectors)
    /\ cpc' = "sectors"
    /\ UNCHANGED <<car_median_line_filtered, sector_payload>>
    /\ UNCHANGED notCanonVars

\* export_main_artefacts, lines 712-719
ExportMainArtefacts ==
    /\ cpc = "sectors"
    /\ sector_payload' =
          [track_length_m |-> canonical_line[Len(canonical_line)].dist_m,
           ideal_lap_time_s |-> canonical_line[Len(canonical_line)].ideal_time_s,
           sectors |-> sector_info]
    /\ cpc' = "exported"
    /\ UNCHANGED <<car_median_line_filtered, canonical_line, sector_info>>
    /\ UNCHANGED notCanonVars

\* filter_outlier_cars has kept one to three cars
InitCanonical ==
    /\ \E n \in 1..3 : car_median_line_filtered \in [1..n -> CarMedianLines]
    /\ canonical_line = <<>>
    /\ sector_info = <<>>
    /\ sector_payload = NoPayload
    /\ cpc = "filtered"
    /\ NotCanonIdle

NextCanonical ==
    \/ ComputeCanonicalLine
    \/ \E n_sectors \in 1..3 :
          \E ideal_speed_ms \in [DOMAIN canonical_line -> IdealSpeeds] :
              ComputeIdealSpeedAndSectors(ideal_speed_ms, n_sectors)
    \/ ExportMainArtefacts

SpecCanonical == InitCanonical /\ [][NextCanonical]_vars

\* ------------------------------------------------------------------
\* Properties of the canonical line and the sectors
\* ------------------------------------------------------------------
SectorSum ==
    LET RECURSIVE SumTo(_)
        SumTo(k) == IF k = 0 THEN 0 ELSE sector_info[k].ideal_time_s + SumTo(k - 1)
    IN  SumTo(Len(sector_info))

\* C14: once the sectors are computed, their ideal times add up to the
\* total ideal lap time, the last ideal_time_s of the canonical line.
C14_SectorTimesSumToIdealLapTime ==
    cpc \in {"sectors", "exported"} =>
       SectorSum = canonical_line[Len(canonical_line)].ideal_time_s

\* C15: dist_m of the canonical line increases strictly from row to row, and
\* its last value is the exported track_length_m.
C15_DistStrictlyIncreasingToTrackLength ==
    /\ \A i \in 2..Len(canonical_line) :
          canonical_line[i].dist_m > canonical_line[i - 1].dist_m
    /\ cpc = "exported" =>
          sector_payload.track_length_m = canonical_line[Len(canonical_line)].dist_m

\* ------------------------------------------------------------------
\* processing/generate_racing_line.py: the global racing line
\* A collected point keeps its normalised lapdist as the fraction num / den.
\* Medians are kept doubled (Median2), so that the median of an even number
\* of integers stays an integer; distances are compared by their squares.
\* ------------------------------------------------------------------
\* trajectories [x, y, speed, lapdist] of one car: a closed lap at racing
\* speed, the same lap crawled, a car that never left the grid, a lap whose
\* bins lie 100 m apart, a lap with one stray point, and a car that only
\* moved about the pit lane
LineTrajectories ==
    LET P(n, ld, x, y, sp) ==
            [i \in 1..n |-> [x |-> x, y |-> y, speed |-> sp, lapdist |-> ld]]
        Loop(sp) == P(1, 0, 0, 0, sp) \o P(1, 250, 10, 0, sp) \o P(1, 500, 10, 10, sp)
                       \o P(1, 750, 0, 10, sp) \o P(1, 1000, 0, 0, sp)
    IN  {Loop(30),
         Loop(5),
         P(1, 0, 0, 0, 30) \o P(1, 50, 10, 0, 30),
         P(1, 0, 0, 0, 30) \o P(1, 250, 100, 0, 30) \o P(1, 500, 200, 0, 30)
            \o P(1, 750, 300, 0, 30) \o P(1, 1000, 0, 0, 30),
         P(2, 0, 0, 0, 30) \o P(1, 0, 50, 0, 30) \o Tail(Loop(30)),
         P(5, 0, 0, 0, 10) \o P(5, 15, 80, 0, 10) \o P(2, 1000, 0, 0, 5)}

\* lines 166-187: the points of every car whose lapdist range is at least 100
RECURSIVE collect_points(_, _)
collect_points(trajs, car_id) ==
    IF car_id \notin DOMAIN trajs THEN <<>>
    ELSE LET traj == trajs[car_id]
             lds == {traj[i].lapdist : i \in DOMAIN traj}
             ld_min == FirstOf(lds)
             ld_max == CHOOSE v \in lds : \A w \in lds : w <= v
         IN  (IF ld_max - ld_min < 100 THEN <<>>
              ELSE [i \in DOMAIN traj |->
                      [num |-> traj[i].lapdist - ld_min, den |-> ld_max - ld_min,
                       x |-> traj[i].x, y |-> traj[i].y, speed |-> traj[i].speed]])
             \o collect_points(trajs, car_id + 1)

\* np.digitize(..) - 1 clipped to the last bin, for n bins over [0, 1]
BinIndex(p, n) == IF (p.num * n) \div p.den >= n THEN n - 1 ELSE (p.num * n) \div p.den

\* the rows of points whose index is in keep, in order
RECURSIVE KeepRows(_, _, _)
KeepRows(points, keep, i) ==
    IF i > Len(points) THEN <<>>
    ELSE (IF i \in keep THEN <<points[i]>> ELSE <<>>) \o KeepRows(points, keep, i + 1)

\* one coordinate of the rows of points whose index is in rows, as a sequence
Column(points, rows, coord) ==
    LET kept == KeepRows(points, rows, 1)
    IN  [a \in DOMAIN kept |-> kept[a][coord]]

\* filter_main_track_points
filter_main_track_points(points) ==
    LET \* rule 1, lines 33-34
        fast == KeepRows(points, {i \in DOMAIN points : points[i].speed >= 8}, 1)
        \* rule 2, lines 46-83
        far == {j \in DOMAIN fast :
                  LET bin == {i \in DOMAIN fast :
                                 BinIndex(fast[i], 100) = BinIndex(fast[j], 100)}
                      dx == (2 * fast[j].x) - Median2(Column(fast, bin, "x"))
                      dy == (2 * fast[j].y) - Median2(Column(fast, bin, "y"))
                  IN  /\ Cardinality(bin) >= 3
                      /\ (dx * dx) + (dy * dy) > 4 * 20 * 20}
        near == KeepRows(fast, DOMAIN fast \ far, 1)
        \* rule 3, lines 99-133
        pit == {j \in DOMAIN near :
                  LET win == {i \in DOMAIN near :
                                 BinIndex(near[i], 50) = BinIndex(near[j], 50)}
                      n == Cardinality(win)
                      RECURSIVE Sum(_)
                      Sum(q) == IF q = <<>> THEN 0 ELSE Head(q) + Sum(Tail(q))
                      Sq(q) == [a \in DOMAIN q |-> q[a] * q[a]]
                      xs == Column(near, win, "x")
                      ys == Column(near, win, "y")
                  IN  /\ n >= 10
                      /\ Sum(Column(near, win, "speed")) < 15 * n
                      /\ ((n * Sum(Sq(xs))) - (Sum(xs) * Sum(xs)))
                            + ((n * Sum(Sq(ys))) - (Sum(ys) * Sum(ys)))
                           > 30 * 30 * n * n}
    IN  IF Len(fast) = 0 THEN fast
        ELSE IF Len(near) = 0 THEN near
        ELSE KeepRows(near, DOMAIN near \ pit, 1)

\* compute_racing_line up to line 257: zeros, the ValueError, or a line
\* interpolated and smoothed over the bins that stayed valid
bin_racing_line(all_points, n_points) ==
    LET bin_indices == [i \in DOMAIN all_points |-> BinIndex(all_points[i], n_points)]
        filled == Range(bin_indices)
        \* lines 217-223, doubled
        racing_line_2 ==
            [b \in filled |->
                LET mask == {i \in DOMAIN all_points : bin_indices[i] = b}
                IN  <<Median2(Column(all_points, mask, "x")),
                      Median2(Column(all_points, mask, "y"))>>]
        \* lines 229-238: bins b with distances[b] > max_jump
        jumps == {b \in filled :
                    /\ ((b + 1) % n_points) \in filled
                    /\ SqDist(racing_line_2[b], racing_line_2[(b + 1) % n_points])
                          > 4 * 15 * 15}
        \* lines 242-250
        valid == {b \in filled :
                    /\ ((b + n_points) - 1) % n_points \notin jumps
                    /\ b \notin jumps}
    IN  IF Len(all_points) = 0
        THEN [kind |-> "zeros", n_points |-> n_points, valid |-> {}]
        ELSE IF valid = {}
        THEN [kind |-> "raised", n_points |-> n_points, valid |-> {}]
        ELSE [kind |-> "line", n_points |-> n_points, valid |-> valid]

\* compute_racing_line: the points are collected and filtered once (lines
\* 166-206), then binned
compute_racing_line(trajs, n_points) ==
    CHOOSE result \in
        UNION {{bin_racing_line(all_points, n_points) :
                   all_points \in {filter_main_track_points(raw)}} :
               raw \in {collect_points(trajs, 1)}} : TRUE

ComputeRacingLine(n_points) ==
    /\ rl_result = NoLine
    /\ rl_result' = compute_racing_line(all_trajectories, n_points)
    /\ UNCHANGED all_trajectories
    /\ UNCHANGED notLineVars

\* the trajectories of one or two cars, as generate_all_trajectories passes them
InitLine ==
    /\ \E n \in 1..2 : all_trajectories \in [1..n -> LineTrajectories]
    /\ rl_result = NoLine
    /\ NotLineIdle

NextLine == \E n_points \in {2, 4} : ComputeRacingLine(n_points)

SpecLine == InitLine /\ [][NextLine]_vars

\* ------------------------------------------------------------------
\* Properties of the global racing line
\* ------------------------------------------------------------------
\* the pit-lane filter left no point of the points collected
FilterRemovedEveryPoint ==
    /\ Len(collect_points(all_trajectories, 1)) > 0
    /\ Len(filter_main_track_points(collect_points(all_trajectories, 1))) = 0

\* C17: when the pit-lane filter removes every point, or no output bin holds
\* data, compute_racing_line fails: it returns no line, not even a
\* placeholder.
C17_FailsWithoutPointsOrBins ==
    (rl_result # NoLine /\ (FilterRemovedEveryPoint \/ rl_result.valid = {}))
       => rl_result.kind = "raised"

\* ------------------------------------------------------------------
\* processing/interpolate_trajectories.py: the lap channel
\* ------------------------------------------------------------------
\* rows of df handed to interpolate_trajectory
MaxLapRows == 3

\* lap numbers as logged
LapNumbers == {0, 1, 2, 3}

\* interp1d(kind='nearest') at grid step g: the nearer of the two bracketing
\* rows, the earlier one at the midpoint
NearestLap(tbl, g) ==
    LET k == Bracket(tbl, g)
    IN  IF 2 * (g - tbl[k].rel_time) <= tbl[k + 1].rel_time - tbl[k].rel_time
        THEN tbl[k].lap ELSE tbl[k + 1].lap

\* lines 101-110
lap_channel(tbl, present) ==
    LET raw == [j \in 1..GridLen(tbl) |-> IF present THEN NearestLap(tbl, j - 1) ELSE 1]
        min_lap == FirstOf(Range(raw))
    IN  IF present /\ min_lap > 1
        THEN [j \in DOMAIN raw |-> (raw[j] - min_lap) + 1]
        ELSE raw

\* interpolate_trajectory, as far as the lap column goes
InterpolateLap ==
    /\ lpc = "start"
    /\ IF Len(lap_df) < 2 \/ GridLen(lap_df) < 2
       THEN /\ lpc' = "returned_none"
            /\ lap_interp' = <<>>
       ELSE /\ lpc' = "returned"
            /\ lap_interp' = lap_channel(lap_df, lap_present)
    /\ UNCHANGED <<lap_df, lap_present>>
    /\ UNCHANGED notLapVars

\* df after drop_duplicates and sort_values, with or without a lap column
InitLap ==
    /\ \E n \in 1..MaxLapRows : \E g \in [1..(n - 1) -> Gaps] :
          \/ /\ lap_present = TRUE
             /\ \E v \in [1..n -> LapNumbers] :
                   lap_df = [k \in 1..n |-> [rel_time |-> TimesFrom(g, 0)[k], lap |-> v[k]]]
          \/ /\ lap_present = FALSE
             /\ lap_df = [k \in 1..n |-> [rel_time |-> TimesFrom(g, 0)[k], lap |-> 0]]
    /\ lap_interp = <<>>
    /\ lpc = "start"
    /\ NotLapIdle

NextLap == InterpolateLap

SpecLap == InitLap /\ [][NextLap]_vars

\* C18: when the input has a lap channel, the smallest lap number of the
\* returned trajectory is exactly 1.
C18_MinimumLapIsOne ==
    (lpc = "returned" /\ lap_present) => FirstOf(Range(lap_interp)) = 1

\* ------------------------------------------------------------------
\* processing/trail_generation.py: the trailing samples of the fastest lap
\* Times are tenths of a second.
\* ------------------------------------------------------------------
\* samples of the fastest lap
MaxLapSamples == 52

build_trail_last_50(lap, seconds) ==
    LET t_rel_s == [i \in DOMAIN lap |-> lap[i] - lap[1]]
    IN  IF t_rel_s[Len(lap)] <= 0 THEN [raised |-> TRUE, trail |-> <<>>]
        ELSE [raised |-> FALSE,
              trail |-> KeepRows(t_rel_s, {i \in DOMAIN lap : i > Len(lap) - 50}, 1)]

\* build_trail_for_car, lines 231-246; lap is sorted by timestamp, so the
\* last t_rel_s is the greatest
build_trail_for_car(lap, seconds) ==
    LET t_rel_s == [i \in DOMAIN lap |-> lap[i] - lap[1]]
        t_max == t_rel_s[Len(lap)]
        mask == {i \in DOMAIN lap : t_rel_s[i] >= t_max - seconds}
    IN  IF t_max <= 0 THEN [raised |-> TRUE, trail |-> <<>>]
        ELSE [raised |-> FALSE,
              trail |-> IF mask = {}
                        THEN KeepRows(t_rel_s, {i \in DOMAIN lap : i > Len(lap) - 50}, 1)
                        ELSE KeepRows(t_rel_s, mask, 1)]

BuildTrail ==
    /\ tpc = "start"
    /\ LET r == build_trail_for_car(trail_lap, trail_seconds)
       IN  /\ trail_df' = r.trail
           /\ tpc' = IF r.raised THEN "raised" ELSE "returned"
    /\ UNCHANGED <<trail_lap, trail_seconds>>
    /\ UNCHANGED notTrailVars

\* project_lap_to_canonical returned the fastest lap: samples every 0, 0.1
\* or 0.5 s, possibly after a pause of 6 s behind the first sample; the
\* window is 0, 5 or 15 s
InitTrail ==
    /\ \E n \in 1..MaxLapSamples : \E gap \in {0, 1, 5} : \E pause \in {0, 60} :
          trail_lap = [i \in 1..n |-> 100 + ((i - 1) * gap) + (IF i > 1 THEN pause ELSE 0)]
    /\ trail_seconds \in {0, 50, 150}
    /\ trail_df = <<>>
    /\ tpc = "start"
    /\ NotTrailIdle

NextTrail == BuildTrail

SpecTrail == InitTrail /\ [][NextTrail]_vars

\* ------------------------------------------------------------------
\* Properties of the trail
\* ------------------------------------------------------------------
TRel == [i \in DOMAIN trail_lap |-> trail_lap[i] - trail_lap[1]]

LapDuration == TRel[Len(trail_lap)]

\* C19: the trail is the samples whose time from lap start lies in the
\* trailing trail_seconds of the lap, and the last 50 samples of the lap
\* when the lap is shorter than trail_seconds.
C19_TrailingWindowOrLastFifty ==
    tpc = "returned" =>
       trail_df = IF LapDuration < trail_seconds
                  THEN KeepRows(TRel, {i \in DOMAIN TRel : i > Len(TRel) - 50}, 1)
                  ELSE KeepRows(TRel, {i \in DOMAIN TRel :
                                          TRel[i] >= LapDuration - trail_seconds}, 1)

\* C20: a returned trail is never empty, and its samples span no more than
\* trail_seconds (greatest t_rel_s minus smallest t_rel_s).
C20_TrailNonEmptyWithinWindow ==
    tpc = "returned" =>
       /\ Len(trail_df) > 0
       /\ \A a, b \in Range(trail_df) : a - b <= trail_seconds

\* a trail of several samples cut out of a longer lap
C20_Witness ==
    /\ tpc = "returned"
    /\ Len(trail_df) > 1
    /\ Len(trail_df) < Len(trail_lap)
    /\ trail_df[Len(trail_df)] - trail_df[1] = trail_seconds

\* ------------------------------------------------------------------
\* Properties of the progress callback
\* ------------------------------------------------------------------
\* the job has ended; the vehicles of its file that were not saved
JobDone == ppc = "done"

SkippedVehicles == {i \in DOMAIN telemetry : ~VehicleSaved(telemetry[i])}

\* C21: every fraction passed to the progress callback, by
\* generate_all_trajectories and by PreprocessingRunner, lies in [0, 1],
\* for any number of vehicles and any pattern of skipped vehicles.
C21_ProgressFractionsInUnitInterval ==
    \A k \in CallsOf("on_progress") :
        /\ calls[k].den > 0
        /\ 0 <= calls[k].num
        /\ calls[k].num <= calls[k].den

\* a job over two or more vehicles, one of them skipped, ran to on_complete
\* and reported its last job total_jobs = 3 + 6N
C21_Witness ==
    /\ JobDone
    /\ Len(telemetry) >= 2
    /\ SkippedVehicles # {}
    /\ CallsOf("on_complete") # {}
    /\ \E k \in CallsOf("on_progress") :
          calls[k].num = 3 + (6 * Len(telemetry)) /\ calls[k].den = calls[k].num

\* ------------------------------------------------------------------
\* app/dataset_manager.py: DatasetManager
\* ------------------------------------------------------------------
\* calls made on one manager
MaxDatasetCalls == 4

\* f"dataset_{n}"
DatasetId(n) ==
    <<"dataset_1", "dataset_2", "dataset_3", "dataset_4", "dataset_5",
      "dataset_6", "dataset_7", "dataset_8">>[n]

\* ids passed to set_active_dataset and remove_dataset
DatasetIdArgs == {DatasetId(n) : n \in 1..3}

\* What data_dir holds: a metadata.json with an object, none (open raises),
\* or one whose JSON value is not an object (DatasetInfo.__init__ raises on
\* metadata.get, after next_dataset_id was incremented).
DataDirs == {"processed", "no_metadata", "metadata_not_object"}

DmReturn(op, arg, result) == [op |-> op, arg |-> arg, result |-> result]

\* add_dataset, lines 46-77
AddDataset(data_dir) ==
    /\ Len(dm_returns) < MaxDatasetCalls
    /\ CASE data_dir = "no_metadata" ->
              /\ dm_returns' = Append(dm_returns, DmReturn("add_dataset", data_dir, "raised"))
              /\ UNCHANGED <<datasets, active_dataset_id, next_dataset_id>>
         [] data_dir = "metadata_not_object" ->
              /\ next_dataset_id' = next_dataset_id + 1
              /\ dm_returns' = Append(dm_returns, DmReturn("add_dataset", data_dir, "raised"))
              /\ UNCHANGED <<datasets, active_dataset_id>>
         [] OTHER ->
              LET dataset_id == DatasetId(next_dataset_id)
              IN  /\ next_dataset_id' = next_dataset_id + 1
                  /\ datasets' = Append(datasets, dataset_id)
                  /\ active_dataset_id' =
                        IF active_dataset_id = None THEN dataset_id ELSE active_dataset_id
                  /\ dm_returns' =
                        Append(dm_returns, DmReturn("add_dataset", data_dir, dataset_id))
    /\ UNCHANGED notDatasetVars

\* set_active_dataset, lines 79-93
SetActiveDataset(dataset_id) ==
    /\ Len(dm_returns) < MaxDatasetCalls
    /\ IF dataset_id \notin Range(datasets)
       THEN /\ dm_returns' =
                  Append(dm_returns, DmReturn("set_active_dataset", dataset_id, "False"))
            /\ UNCHANGED active_dataset_id
       ELSE /\ active_dataset_id' = dataset_id
            /\ dm_returns' =
                  Append(dm_returns, DmReturn("set_active_dataset", dataset_id, "True"))
    /\ UNCHANGED <<datasets, next_dataset_id>>
    /\ UNCHANGED notDatasetVars

\* remove_dataset without the test of lines 118-120
RemoveDatasetEvenIfOnlyOne(dataset_id) ==
    /\ Len(dm_returns) < MaxDatasetCalls
    /\ IF dataset_id \notin Range(datasets)
       THEN /\ dm_returns' =
                  Append(dm_returns, DmReturn("remove_dataset", dataset_id, "False"))
            /\ UNCHANGED <<datasets, active_dataset_id>>
       ELSE LET remaining_ids == SelectSeq(datasets, LAMBDA did : did # dataset_id)
            IN  /\ active_dataset_id' =
                      IF dataset_id = active_dataset_id /\ remaining_ids # <<>>
                      THEN remaining_ids[1] ELSE active_dataset_id
                /\ datasets' = remaining_ids
                /\ dm_returns' =
                      Append(dm_returns, DmReturn("remove_dataset", dataset_id, "True"))
    /\ UNCHANGED next_dataset_id
    /\ UNCHANGED notDatasetVars

\* remove_dataset, lines 106-129
RemoveDataset(dataset_id) ==
    /\ Len(dm_returns) < MaxDatasetCalls
    /\ IF \/ dataset_id \notin Range(datasets)
          \/ (dataset_id = active_dataset_id /\ Len(datasets) = 1)
       THEN /\ dm_returns' =
                  Append(dm_returns, DmReturn("remove_dataset", dataset_id, "False"))
            /\ UNCHANGED <<datasets, active_dataset_id>>
       ELSE LET remaining_ids == SelectSeq(datasets, LAMBDA did : did # dataset_id)
            IN  /\ active_dataset_id' =
                      IF dataset_id = active_dataset_id /\ remaining_ids # <<>>
                      THEN remaining_ids[1] ELSE active_dataset_id
                /\ datasets' = remaining_ids
                /\ dm_returns' =
                      Append(dm_returns, DmReturn("remove_dataset", dataset_id, "True"))
    /\ UNCHANGED next_dataset_id
    /\ UNCHANGED notDatasetVars

InitDataset == DatasetIdle /\ NotDatasetIdle

NextDataset ==
    \/ \E data_dir \in DataDirs : AddDataset(data_dir)
    \/ \E dataset_id \in DatasetIdArgs : SetActiveDataset(dataset_id)
    \/ \E dataset_id \in DatasetIdArgs : RemoveDataset(dataset_id)

SpecDataset == InitDataset /\ [][NextDataset]_vars

\* ------------------------------------------------------------------
\* Properties of the DatasetManager
\* ------------------------------------------------------------------
\* some add_dataset call has returned
EverAdded ==
    \E k \in DOMAIN dm_returns :
        dm_returns[k].op = "add_dataset" /\ dm_returns[k].result # "raised"

DmCalls(op, result) ==
    {k \in DOMAIN dm_returns : dm_returns[k].op = op /\ dm_returns[k].result = result}

\* C22: after any sequence of add_dataset, set_active_dataset and
\* remove_dataset calls exactly one dataset is active whenever one is loaded:
\* active_dataset_id is None iff no dataset was ever added, and otherwise it
\* is the id of a dataset the manager holds.
C22_OneActiveDataset ==
    /\ active_dataset_id = None <=> ~EverAdded
    /\ active_dataset_id # None => active_dataset_id \in Range(datasets)
    /\ datasets # <<>> => active_dataset_id \in Range(datasets)

\* the first dataset was removed while active, and removing the only
\* dataset left was refused
C22_Witness ==
    /\ EverAdded
    /\ DatasetId(1) \notin Range(datasets)
    /\ DmCalls("remove_dataset", "True") # {}
    /\ \E k \in DmCalls("remove_dataset", "False") :
          dm_returns[k].arg = active_dataset_id

\* ------------------------------------------------------------------
\* app/message_overlay.py
\* Time is counted in ticks.  The overlay reads the clock only to compare it
\* with active_until, so the model keeps time_remaining = active_until -
\* time.time(), which the passing of time lowers; at or below 0 the code
\* takes the same branch whatever the value.
\* ------------------------------------------------------------------
MaxMessages == 3
MaxClears == 1

\* durations passed to show_message, in ticks
Durations == {0, 1, 2}

OverlayState(q, a, t, e) ==
    [message_queue |-> q, active_message |-> a, time_remaining |-> t, overlay_events |-> e]

OverlayEvent(kind, text, before) == [kind |-> kind, text |-> text, before |-> before]

\* _activate_next_message taking the newest message of the queue
activate_newest_message(s) ==
    IF s.message_queue # <<>>
    THEN LET msg == s.message_queue[Len(s.message_queue)]
         IN  OverlayState(SubSeq(s.message_queue, 1, Len(s.message_queue) - 1), msg,
                          msg.duration,
                          Append(s.overlay_events,
                                 OverlayEvent("activate", msg.text, s.active_message.text)))
    ELSE s

\* _activate_next_message, lines 37-44; the event records which message was
\* active when the call was made
activate_next_message(s) ==
    IF s.message_queue # <<>>
    THEN LET msg == Head(s.message_queue)
         IN  OverlayState(Tail(s.message_queue), msg, msg.duration,
                          Append(s.overlay_events,
                                 OverlayEvent("activate", msg.text, s.active_message.text)))
    ELSE s

\* render_overlay, lines 62-76, on the module's state s
render_overlay(s) ==
    LET s1 == IF s.active_message = NoMessage /\ s.message_queue # <<>>
              THEN activate_next_message(s) ELSE s
    IN  IF s1.active_message # NoMessage /\ s1.time_remaining <= 0
        THEN LET s2 == [s1 EXCEPT !.active_message = NoMessage]
             IN  IF s2.message_queue # <<>> THEN activate_next_message(s2) ELSE s2
        ELSE s1

\* init_message_overlay
InitMessageOverlay ==
    /\ canvas_tag' = "canvas"
    /\ UNCHANGED <<message_queue, active_message, time_remaining, overlay_events,
                   messages_shown>>
    /\ UNCHANGED notOverlayVars

\* show_message; the text of the model is the number of the call
ShowMessage(duration) ==
    /\ messages_shown < MaxMessages
    /\ message_queue' = Append(message_queue,
                               [text |-> messages_shown + 1, duration |-> duration])
    /\ messages_shown' = messages_shown + 1
    /\ UNCHANGED <<active_message, time_remaining, canvas_tag, overlay_events>>
    /\ UNCHANGED notOverlayVars

\* render_overlay, one frame
RenderOverlay ==
    /\ IF canvas_tag = None
       THEN UNCHANGED <<message_queue, active_message, time_remaining, overlay_events>>
       ELSE \E s \in {render_overlay(OverlayState(message_queue, active_message,
                                                   time_remaining, overlay_events))} :
               /\ message_queue' = s.message_queue
               /\ active_message' = s.active_message
               /\ time_remaining' = s.time_remaining
               /\ overlay_events' = s.overlay_events
    /\ UNCHANGED <<canvas_tag, messages_shown>>
    /\ UNCHANGED notOverlayVars

\* clear_all_messages
ClearAllMessages ==
    /\ Cardinality({k \in DOMAIN overlay_events : overlay_events[k].kind = "clear"})
          < MaxClears
    /\ message_queue' = <<>>
    /\ active_message' = NoMessage
    /\ overlay_events' = Append(overlay_events, OverlayEvent("clear", messages_shown, 0))
    /\ UNCHANGED <<time_remaining, canvas_tag, messages_shown>>
    /\ UNCHANGED notOverlayVars

\* time.time() advances by one tick
Tick ==
    /\ time_remaining > 0
    /\ time_remaining' = time_remaining - 1
    /\ UNCHANGED <<message_queue, active_message, canvas_tag, overlay_events,
                   messages_shown>>
    /\ UNCHANGED notOverlayVars

InitOverlay == OverlayIdle /\ NotOverlayIdle

NextOverlay ==
    \/ InitMessageOverlay
    \/ \E duration \in Durations : ShowMessage(duration)
    \/ RenderOverlay
    \/ ClearAllMessages
    \/ Tick

SpecOverlay == InitOverlay /\ [][NextOverlay]_vars

\* render_overlay runs in every frame of the main loop, and time passes
SpecOverlayFair == SpecOverlay /\ WF_vars(RenderOverlay) /\ WF_vars(Tick)

\* ------------------------------------------------------------------
\* Properties of the message overlay
\* ------------------------------------------------------------------
Activations == {k \in DOMAIN overlay_events : overlay_events[k].kind = "activate"}

\* message m was activated, or was dropped by clear_all_messages, in one of
\* the first n events
SettledWithin(m, n) ==
    \E e \in 1..n :
        \/ overlay_events[e].kind = "activate" /\ overlay_events[e].text = m
        \/ overlay_events[e].kind = "clear" /\ overlay_events[e].text >= m

Settled(m) == SettledWithin(m, Len(overlay_events))

\* a message is activated only while no message is active, and it is then
\* the oldest message neither displayed nor cleared
ActivatedOneAtATimeInOrder ==
    \A k \in Activations :
        /\ overlay_events[k].before = NoMessage.text
        /\ \A j \in 1..(overlay_events[k].text - 1) : SettledWithin(j, k - 1)
        /\ ~SettledWithin(overlay_events[k].text, k - 1)

\* C23: with render_overlay called every frame on an initialised canvas, a
\* queued message becomes active only when no other message is active, the
\* message activated is always the oldest not yet displayed, and every
\* queued message eventually becomes active unless clear_all_messages
\* removes it.
C23_MessagesShownOneAtATimeInOrder ==
    /\ []ActivatedOneAtATimeInOrder
    /\ \A m \in 1..MaxMessages :
          (canvas_tag # None /\ messages_shown >= m) ~> Settled(m)

\* three messages were queued and activated one after the other, none cleared
C23_Witness ==
    /\ messages_shown = 3
    /\ Len(overlay_events) = 3
    /\ \A k \in 1..3 : overlay_events[k] = OverlayEvent("activate", k, 0)
    /\ active_message.text = 3
    /\ active_message.duration > 0

\* ------------------------------------------------------------------
\* Lap boundaries of the consumers of a repaired trajectory
\* ------------------------------------------------------------------
\* WorldModel._compute_lap_data (line 291) and segment_laps_by_lapdist
\* (lines 18-19) on a lapdist column l kept in tenths: the indices i with
\* l[i] < l[i-1] - 100
DropResets(l) == {i \in 1..(Len(l) - 1) : At(l, i) < At(l, i - 1) - Tenths(100)}

\* indices i and i - 1 lie in the same lap of those consumers
SameDownstreamLap(i) == i \notin DropResets(lapdist_interp)

\* C24: the lap boundaries the drop-greater-than-100 rule finds on a repaired
\* trajectory are exactly the resets interpolate_trajectory detected, so
\* lapdist is non-decreasing inside every lap the consumers see.
C24_DownstreamBoundariesAreDetectedResets ==
    Returned =>
        /\ DropResets(lapdist_interp) = Range(reset_indices)
        /\ \A i \in 1..(Len(lapdist_interp) - 1) :
              SameDownstreamLap(i) => At(lapdist_interp, i) >= At(lapdist_interp, i - 1)

\* every boundary the consumers find is a detected reset
DownstreamBoundariesWereDetected ==
    Returned => DropResets(lapdist_interp) \subseteq Range(reset_indices)

\* ------------------------------------------------------------------
\* The background thread of PreprocessingRunner
\* ------------------------------------------------------------------
\* a step of the thread started by PreprocessingRunner.start
ThreadStep ==
    \/ LoadTelemetry
    \/ ProcessVehicle
    \/ GenerateRacingLine
    \/ PerCarLine
    \/ SaveMetadata
    \/ RunnerFinish

\* the thread, once started, is scheduled until _run_preprocessing returns
SpecPipelineFair == SpecPipeline /\ WF_vars(ThreadStep)

TerminalCalls == CallsOf("on_complete") \cup CallsOf("on_error")

\* at most one of on_complete and on_error was invoked, at most once, and
\* no callback was invoked after it
AtMostOneTerminalCallAndLast ==
    /\ Cardinality(TerminalCalls) <= 1
    /\ \A k \in TerminalCalls : k = Len(calls)

\* C25: for every job started and never cancelled, exactly one of on_complete
\* and on_error is invoked, exactly once, whatever the pipeline's outcome,
\* and no progress callback is invoked after it.
C25_ExactlyOneTerminalCallback ==
    /\ [](~cancelled => AtMostOneTerminalCallAndLast)
    /\ []((JobDone /\ ~cancelled) => Cardinality(TerminalCalls) = 1)
    /\ (ppc # "idle" /\ ~cancelled) ~> (cancelled \/ Cardinality(TerminalCalls) = 1)

\* a job that was never cancelled ended with on_error because the pipeline
\* raised after the vehicle loop
C25_Witness ==
    /\ JobDone
    /\ ~cancelled
    /\ calls[Len(calls)] = Call("on_error", 0, 0, "Processing failed")
    /\ pipe_trajectories # <<>>

\* C26: once cancel() has been called while the job is running, neither
\* on_complete nor on_error is invoked for that job afterwards.
C26_NoTerminalCallbackAfterCancel ==
    [][cancelled => TerminalCalls' = TerminalCalls]_vars

\* the fraction of call i is at most the fraction of call j
FractionLeq(i, j) == calls[i].num * calls[j].den <= calls[j].num * calls[i].den

\* C27: over one preprocessing job the fractions passed to the progress
\* callback are non-decreasing, from 0.0 at the first call to 1.0 at the last.
C27_ProgressNonDecreasing ==
    /\ \A i, j \in CallsOf("on_progress") : i < j => FractionLeq(i, j)
    /\ calls # <<>> => calls[1] = Call("on_progress", 0, 1, "")
    /\ (JobDone /\ CallsOf("on_complete") # {}) =>
          calls[Len(calls) - 1] = Call("on_progress", 1, 1, "Complete!")

\* the fractions reported up to the return of generate_all_trajectories are
\* non-decreasing when section compare processing is not available
ProgressNonDecreasingWithoutSectionCompare ==
    (\A k \in CallsOf("on_progress") : calls[k].den # 100) =>
        \A i, j \in CallsOf("on_progress") : i < j => FractionLeq(i, j)

\* ------------------------------------------------------------------
\* Properties of the best sector times
\* ------------------------------------------------------------------
\* min of a set of times; float('inf') when there is none
MinTime(S) == IF S = {} THEN inf ELSE FirstOf(S)

\* the times of sector i over the laps of car c stored in car_sector_times
RecordedTimes(c, i) == {car_sector_times[c][lap_num][i] : lap_num \in StoredLaps(c)}

SectorsComputed == spc = "returned" /\ Len(sector_boundaries) >= 1

\* the sectors best_sectors and overall_best_sectors have an entry for
BestSectors == DOMAIN sector_boundaries \cap DOMAIN overall_best_sectors

\* C28: the personal best of a car for sector i is the minimum of sector i's
\* time over the car's recorded laps, and the fleet best is the minimum of
\* the personal bests over all cars.
C28_BestsAreMinimaOverRecordedLaps ==
    SectorsComputed =>
        \A i \in BestSectors :
            /\ \A c \in DOMAIN car_best_sectors :
                  car_best_sectors[c][i] = MinTime(RecordedTimes(c, i))
            /\ overall_best_sectors[i] =
                  MinTime({car_best_sectors[c][i] : c \in DOMAIN car_best_sectors})

\* fleet best <= personal best <= every recorded time of the sector
BestsBoundRecordedTimes ==
    SectorsComputed =>
        \A i \in BestSectors :
            /\ \A c \in DOMAIN car_best_sectors :
                  /\ overall_best_sectors[i] <= car_best_sectors[c][i]
                  /\ \A t \in RecordedTimes(c, i) : car_best_sectors[c][i] <= t
            /\ overall_best_sectors[i] =
                  MinTime({car_best_sectors[c][i] : c \in DOMAIN car_best_sectors})

\* C29: for a sector map with any number N >= 1 of sectors, loading the
\* world model computes sector times, personal bests and fleet bests for all
\* N sectors without error.
C29_AnyNumberOfSectorsLoads ==
    /\ spc # "raised"
    /\ SectorsComputed =>
          /\ Len(overall_best_sectors) >= Len(sector_boundaries)
          /\ \A c \in DOMAIN car_best_sectors :
                Len(car_best_sectors[c]) >= Len(sector_boundaries)

\* ------------------------------------------------------------------
\* app/app_state.py: the operations of StateManager, called in any order
\* ------------------------------------------------------------------
\* transition_to with the callback main.py registers: a transition to
\* PROCESSING starts a PreprocessingRunner on the input file
transition_to(new_state) ==
    /\ app_state' = new_state
    /\ runner_jobs' = IF new_state = "processing"
                      THEN runner_jobs \cup {input_file_path'}
                      ELSE runner_jobs

SetInputFile(file_path) ==
    /\ input_file_path' = file_path
    /\ error_message' = None
    /\ transition_to("processing")
    /\ UNCHANGED <<output_dir, progress_percent>>
    /\ UNCHANGED notAppVars

SetProcessedDir(dir_path) ==
    /\ output_dir' = dir_path
    /\ input_file_path' = None
    /\ error_message' = None
    /\ transition_to("ready")
    /\ UNCHANGED progress_percent
    /\ UNCHANGED notAppVars

SetProcessingProgress(percent) ==
    /\ progress_percent' = percent
    /\ UNCHANGED <<app_state, input_file_path, output_dir, error_message, runner_jobs>>
    /\ UNCHANGED notAppVars

SetReady(dir_path) ==
    /\ output_dir' = dir_path
    /\ UNCHANGED <<input_file_path, error_message>>
    /\ transition_to("ready")
    /\ UNCHANGED progress_percent
    /\ UNCHANGED notAppVars

SetError(message) ==
    /\ error_message' = message
    /\ UNCHANGED input_file_path
    /\ transition_to("error")
    /\ UNCHANGED <<output_dir, progress_percent>>
    /\ UNCHANGED notAppVars

ResetStateManager ==
    /\ input_file_path' = None
    /\ output_dir' = None
    /\ error_message' = None
    /\ progress_percent' = 0
    /\ transition_to("waiting_for_file")
    /\ UNCHANGED notAppVars

NextStateManager ==
    \/ \E file_path \in {"race.csv", "no_vehicles.csv"} : SetInputFile(file_path)
    \/ \E dir_path \in {"processed", "empty_dir"} : SetProcessedDir(dir_path)
    \/ \E percent \in {0, 50, 100} : SetProcessingProgress(percent)
    \/ \E dir_path \in {"processed", "empty_dir"} : SetReady(dir_path)
    \/ \E message \in {"Processing failed", "Invalid file type"} : SetError(message)
    \/ ResetStateManager

SpecStateManager == InitApp /\ [][NextStateManager]_vars

\* C30: after any sequence of StateManager operations with non-null
\* arguments, state READY implies output_dir is set, state PROCESSING implies
\* input_file_path is set, and error_message is set exactly when the state
\* is ERROR.
C30_StateManagerInvariants ==
    /\ app_state = "ready" => output_dir # None
    /\ app_state = "processing" => input_file_path # None
    /\ error_message # None <=> app_state = "error"

\* the same with one direction only for the error message: state ERROR
\* implies error_message is set
StateImpliesItsFieldSet ==
    /\ app_state = "ready" => output_dir # None
    /\ app_state = "processing" => input_file_path # None
    /\ app_state = "error" => error_message # None

====
